---- MODULE Spec2Model ----
(***************************************************************************)
(* Model of the floating point reference models of asic-now/hdl            *)
(* (verif/lib/fp_model.py, verif/lib/fp16_model.py and the comparison      *)
(* harness verif/lib/fp_models_compare.py).                                *)
(*                                                                         *)
(* The Python code computes on unbounded integers that hold up to 64-bit   *)
(* encodings and alignment registers of up to MANT_W + 1 + PRECISION_BITS  *)
(* bits.  An unbounded non-negative Python int is modelled here as the     *)
(* finite set of the positions of its 1 bits, so that shifts, masks,       *)
(* carries and borrows are computed bit for bit at every width.  Small     *)
(* quantities (exponents, shift amounts, widths, modes) are Integers.      *)
(* A hex string is the sequence of its digits' values, most significant    *)
(* first.                                                                  *)
(***************************************************************************)
EXTENDS Integers, Sequences, FiniteSets, TLC

VARIABLES pc, call, ret, context_prec, libfp, lib_file, dl_loaded, builds, frame

vars == <<pc, call, ret, context_prec, libfp, lib_file, dl_loaded, builds, frame>>

\* an optional argument: None, or the value given
None == <<>>
Some(v) == <<v>>

(* Process-wide state next to the call in progress: the precision of the   *)
(* decimal arithmetic context (getcontext().prec, 28 when the module is    *)
(* imported), the harness's global library handle, the library file on     *)
(* disk, the image the dynamic loader holds for that path, the number of   *)
(* compile_lib runs so far, and the locals of the harness function in      *)
(* progress.                                                               *)
harness_vars == <<libfp, lib_file, dl_loaded, builds, frame>>

InitProcess ==
  /\ context_prec = 28
  /\ libfp = None
  /\ lib_file = None
  /\ dl_loaded = None
  /\ builds = 0
  /\ frame = <<>>

----------------------------------------------------------------------------
(* Python int arithmetic on sets of bit positions.                         *)

\* the largest element of a non-empty set of naturals
SetMax(S) == CHOOSE m \in S : \A x \in S : x <= m

Pow2(n) == 2 ^ n

RECURSIVE FromNatAt(_, _)
FromNatAt(n, i) ==
  IF n = 0 THEN {}
  ELSE (IF n % 2 = 1 THEN {i} ELSE {}) \cup FromNatAt(n \div 2, i + 1)

\* the int whose value is the small natural n
FromNat(n) == FromNatAt(n, 0)

\* x << k
Shl(x, k) == {i + k : i \in x}

\* x >> k
Shr(x, k) == {i - k : i \in {j \in x : j >= k}}

\* x & ((1 << n) - 1)
Low(x, n) == {i \in x : i < n}

\* (x >> i) & 1
Bit(x, i) == IF i \in x THEN 1 ELSE 0

\* x | y
Or(x, y) == x \cup y

\* x.bit_length()
BitLength(x) == IF x = {} THEN 0 ELSE SetMax(x) + 1

RECURSIVE ToNatBelow(_, _)
ToNatBelow(x, n) ==
  IF n = 0 THEN 0 ELSE Bit(x, n - 1) * Pow2(n - 1) + ToNatBelow(x, n - 1)

\* the value of an int known to be small
ToNat(x) == ToNatBelow(x, BitLength(x))

\* x >= y
Ge(x, y) == x = y \/ SetMax((x \ y) \cup (y \ x)) \in x

\* the carry into bit i of x + y: some lower bit generates it and every bit
\* between propagates it
Carry(x, y, i) ==
  IF \E j \in x \cap y : j < i /\ \A k \in (j + 1)..(i - 1) : k \in x \cup y
  THEN 1 ELSE 0

\* x + y
Sum(x, y) ==
  {i \in 0..BitLength(x \cup y) : (Bit(x, i) + Bit(y, i) + Carry(x, y, i)) % 2 = 1}

\* the borrow into bit i of x - y: some lower bit generates it and no bit
\* between absorbs it
Borrow(x, y, i) ==
  IF \E j \in y \ x : j < i /\ \A k \in (j + 1)..(i - 1) : k \notin x \ y
  THEN 1 ELSE 0

\* x - y for x >= y
Diff(x, y) ==
  {i \in 0..(BitLength(x) - 1) : (Bit(x, i) + Bit(y, i) + Borrow(x, y, i)) % 2 = 1}

----------------------------------------------------------------------------
(* Rounding modes, fp_model.py lines 19-23.                                *)

RNE == 0
RTZ == 1
RPI == 2
RNI == 3
RNA == 4

ROUNDING_MODES == {RNE, RTZ, RPI, RNI, RNA}

----------------------------------------------------------------------------
(* grs_round: the guard/round/sticky rounding decision.                    *)

\* Sticky mask one bit too short: the bit just below the round bit is lost.
grs_sticky_short(value_in, shift_amount) ==
  IF shift_amount >= 3
  THEN (IF Low(value_in, shift_amount - 3) # {} THEN 1 ELSE 0)
  ELSE 0

grs_sticky(value_in, shift_amount) ==
  IF shift_amount >= 3
  THEN (IF Low(value_in, shift_amount - 2) # {} THEN 1 ELSE 0)
  ELSE 0

\* a & b and a | b on single bits
And1(a, b) == IF a = 1 /\ b = 1 THEN 1 ELSE 0
Or1(a, b) == IF a = 1 \/ b = 1 THEN 1 ELSE 0

grs_round(value_in, sign_in, mode, input_width, output_width) ==
  LET shift_amount == input_width - output_width
      lsb == Bit(Shr(value_in, shift_amount), 0)
      g == IF shift_amount >= 1 THEN Bit(Shr(value_in, shift_amount - 1), 0) ELSE 0
      r == IF shift_amount >= 2 THEN Bit(Shr(value_in, shift_amount - 2), 0) ELSE 0
      s == grs_sticky(value_in, shift_amount)
      inexact == Or1(g, Or1(r, s))
      increment ==
        CASE mode = RNE -> And1(g, Or1(r, Or1(s, lsb)))
          [] mode = RTZ -> 0
          [] mode = RPI -> And1(1 - sign_in, inexact)
          [] mode = RNI -> And1(sign_in, inexact)
          [] mode = RNA -> g
          [] OTHER -> 0
  IN IF shift_amount <= 0 THEN value_in ELSE FromNat(increment)

----------------------------------------------------------------------------
(* The rounder on its own: inputs drawn in Init, one call of grs_round.    *)

GrsBits == 5

InitGrs ==
  /\ pc = "call"
  /\ \E value_in \in SUBSET (0..(GrsBits - 1)), sign_in \in {0, 1},
        mode \in ROUNDING_MODES, input_width \in 1..GrsBits, output_width \in 1..GrsBits :
       call = [fn |-> "grs_round", value_in |-> value_in, sign_in |-> sign_in,
               mode |-> mode, input_width |-> input_width,
               output_width |-> output_width]
  /\ ret = {}
  /\ InitProcess

CallGrsRound ==
  /\ pc = "call"
  /\ call.fn = "grs_round"
  /\ ret' = grs_round(call.value_in, call.sign_in, call.mode,
                      call.input_width, call.output_width)
  /\ pc' = "done"
  /\ UNCHANGED <<call, context_prec, harness_vars>>

SpecGrs == InitGrs /\ [][CallGrsRound]_vars

----------------------------------------------------------------------------
(* Strings, bytes and numpy scalars.                                       *)

\* int(hex_str, 16)
int16(hex_str) ==
  UNION {Shl(FromNat(hex_str[i]), 4 * (Len(hex_str) - i)) : i \in 1..Len(hex_str)}

\* x.to_bytes(num_bytes, "little"); OverflowError when x does not fit
to_bytes(x, num_bytes) ==
  IF BitLength(x) > 8 * num_bytes THEN [error |-> "OverflowError"]
  ELSE [bytes |-> [i \in 1..num_bytes |-> ToNat(Low(Shr(x, 8 * (i - 1)), 8))]]

\* int.from_bytes(c_bytes, "little")
from_bytes(c_bytes) ==
  UNION {Shl(FromNat(c_bytes[i]), 8 * (i - 1)) : i \in 1..Len(c_bytes)}

\* the n hex digits of c_int, most significant first
hex_digits(c_int, n) == [i \in 1..n |-> ToNat(Low(Shr(c_int, 4 * (n - i)), 4))]

\* the number of hex digits c_int needs
hex_need(c_int) == (BitLength(c_int) + 3) \div 4

\* no zero padding: the digits c_int needs and no more
format_hex_unpadded(c_int, hex_width) == hex_digits(c_int, hex_need(c_int))

\* f"{c_int:0{hex_width}x}": at least hex_width digits, more when c_int needs them
format_hex(c_int, hex_width) ==
  hex_digits(c_int, IF hex_need(c_int) > hex_width THEN hex_need(c_int) ELSE hex_width)

\* np.frombuffer(x.to_bytes(WIDTH // 8, "little"), dtype=np_type)[0]:
\* a numpy scalar is modelled by its bytes
np_frombuffer(x, WIDTH) == to_bytes(x, WIDTH \div 8)

\* the bit pattern of np_type("-0.0") if negative else np_type("0.0")
np_zero(WIDTH, negative) == IF negative THEN {WIDTH - 1} ELSE {}

fp_result(width, c) ==
  IF width \notin {16, 32, 64} THEN [error |-> "ValueError"]
  ELSE IF "error" \in DOMAIN c THEN c
  ELSE LET num_bytes == width \div 8
           hex_width == num_bytes * 2
           c_int == from_bytes(c.bytes)
       IN [hex |-> format_hex(c_int, hex_width), dec |-> c_int]

----------------------------------------------------------------------------
(* fp_add: the bit-accurate adder.                                         *)

\* the per-width table of fp_add: (EXP_W, EXP_BIAS, default_precision)
fp_add_table(WIDTH) ==
  CASE WIDTH = 16 -> [EXP_W |-> 5, EXP_BIAS |-> 15, default_precision |-> 32]
    [] WIDTH = 32 -> [EXP_W |-> 8, EXP_BIAS |-> 127, default_precision |-> 7]
    [] WIDTH = 64 -> [EXP_W |-> 11, EXP_BIAS |-> 1023, default_precision |-> 7]

\* precision_bits or default_precision (None and 0 are both falsy)
fp_add_precision(precision_bits, default_precision) ==
  IF precision_bits = None \/ precision_bits[1] = 0
  THEN default_precision ELSE precision_bits[1]

is_zero(exp, mant) == exp = 0 /\ mant = {}

\* every exponent-all-ones operand with the fraction MSB clear is missed
is_nan_quiet_only(exp, mant, EXP_ALL_ONES, MANT_W) ==
  exp = EXP_ALL_ONES /\ (MANT_W - 1) \in mant

is_inf(exp, mant, EXP_ALL_ONES) == exp = EXP_ALL_ONES /\ mant = {}

is_nan(exp, mant, EXP_ALL_ONES, MANT_W) == exp = EXP_ALL_ONES /\ mant # {}

\* (EXP_ALL_ONES << MANT_W) | (1 << (MANT_W - 1))
qnan_val(EXP_ALL_ONES, MANT_W) ==
  Or(Shl(FromNat(EXP_ALL_ONES), MANT_W), Shl({0}, MANT_W - 1))

\* only a negative first operand is taken for the Inf - Inf case
inf_minus_inf_one_way(is_inf_a, is_inf_b, sign_a, sign_b) ==
  is_inf_a /\ is_inf_b /\ sign_a > sign_b

inf_minus_inf(is_inf_a, is_inf_b, sign_a, sign_b) ==
  is_inf_a /\ is_inf_b /\ sign_a # sign_b

\* the operands of the two Infinity returns exchanged
inf_result_swapped(is_inf_a, a_int, b_int) == IF is_inf_a THEN b_int ELSE a_int

\* if is_inf_a: return a; if is_inf_b: return b
inf_result(is_inf_a, a_int, b_int) == IF is_inf_a THEN a_int ELSE b_int

\* the sign of the first operand alone
zero_sum_sign_first(sign_a, sign_b) == sign_a

\* res_sign = sign_a & sign_b
zero_sum_sign(sign_a, sign_b) == And1(sign_a, sign_b)

\* the zero operand returned instead of the other one
zero_result_swapped(is_zero_a, a_int, b_int) == IF is_zero_a THEN a_int ELSE b_int

\* if is_zero_a: return b; if is_zero_b: return a
zero_result(is_zero_a, a_int, b_int) == IF is_zero_a THEN b_int ELSE a_int

\* the implicit bit left out
full_mant_no_implicit(exp, mant, MANT_W) == mant

\* ((exp != EXP_ALL_ZEROS) << MANT_W) | mant
full_mant(exp, mant, MANT_W) == Or(IF exp # 0 THEN {MANT_W} ELSE {}, mant)

\* exp if exp != 0 else 1
eff_exp(exp) == IF exp # 0 THEN exp ELSE 1

\* the zero of a cancellation takes the sign of the first operand
cancel_negative_first(rm, op_is_sub, sign_a) == sign_a = 1

\* np_type("-0.0") if rm == RNI and op_is_sub else np_type("0.0")
cancel_negative(rm, op_is_sub, sign_a) == rm = RNI /\ op_is_sub

(* The body of fp_add as a chain of steps.  Each step takes the record L   *)
(* of the local variables assigned so far and adds the ones the next lines *)
(* of the function assign.  A Python variable that is assigned twice has   *)
(* one field per assignment (res_exp_aligned, res_exp_normalized, res_exp).*)

\* the arguments, the per-width constants and the parsed operands
fp_add_args(a_hex, b_hex, width, rm, precision_bits) ==
  [WIDTH |-> width, rm |-> rm,
   EXP_W |-> fp_add_table(width).EXP_W,
   PRECISION_BITS |->
     fp_add_precision(precision_bits, fp_add_table(width).default_precision),
   a_int |-> int16(a_hex), b_int |-> int16(b_hex)]

fp_add_constants(L) ==
  L @@ [MANT_W |-> L.WIDTH - 1 - L.EXP_W,
        SIGN_POS |-> L.WIDTH - 1,
        ALIGN_MANT_W |-> (L.WIDTH - 1 - L.EXP_W) + 1 + L.PRECISION_BITS,
        EXP_ALL_ONES |-> Pow2(L.EXP_W) - 1]

\* sign, exp, mant of both operands
fp_add_unpack(L) ==
  L @@ [sign_a |-> Bit(Shr(L.a_int, L.SIGN_POS), 0),
        exp_a |-> ToNat(Low(Shr(L.a_int, L.MANT_W), L.EXP_W)),
        mant_a |-> Low(L.a_int, L.MANT_W),
        sign_b |-> Bit(Shr(L.b_int, L.SIGN_POS), 0),
        exp_b |-> ToNat(Low(Shr(L.b_int, L.MANT_W), L.EXP_W)),
        mant_b |-> Low(L.b_int, L.MANT_W)]

fp_add_classify(L) ==
  L @@ [is_zero_a |-> is_zero(L.exp_a, L.mant_a),
        is_zero_b |-> is_zero(L.exp_b, L.mant_b),
        is_inf_a |-> is_inf(L.exp_a, L.mant_a, L.EXP_ALL_ONES),
        is_inf_b |-> is_inf(L.exp_b, L.mant_b, L.EXP_ALL_ONES),
        is_nan_a |-> is_nan(L.exp_a, L.mant_a, L.EXP_ALL_ONES, L.MANT_W),
        is_nan_b |-> is_nan(L.exp_b, L.mant_b, L.EXP_ALL_ONES, L.MANT_W)]

\* implicit bits, effective exponents and their difference
fp_add_effective(L) ==
  L @@ [full_mant_a |-> full_mant(L.exp_a, L.mant_a, L.MANT_W),
        full_mant_b |-> full_mant(L.exp_b, L.mant_b, L.MANT_W),
        eff_exp_a |-> eff_exp(L.exp_a),
        eff_exp_b |-> eff_exp(L.exp_b),
        exp_diff |-> eff_exp(L.exp_a) - eff_exp(L.exp_b)]

\* align the operand with the smaller effective exponent
fp_add_align(L) ==
  L @@ [mant_a_aligned |->
          IF L.exp_diff > 0 THEN Shl(L.full_mant_a, L.PRECISION_BITS)
          ELSE Shr(Shl(L.full_mant_a, L.PRECISION_BITS), -L.exp_diff),
        mant_b_aligned |->
          IF L.exp_diff > 0 THEN Shr(Shl(L.full_mant_b, L.PRECISION_BITS), L.exp_diff)
          ELSE Shl(L.full_mant_b, L.PRECISION_BITS),
        res_exp_aligned |-> IF L.exp_diff > 0 THEN L.eff_exp_a ELSE L.eff_exp_b]

\* which operand the subtraction takes the other one from
fp_add_compare(L) ==
  L @@ [op_is_sub |-> L.sign_a # L.sign_b,
        a_ge_b |-> Ge(L.mant_a_aligned, L.mant_b_aligned)]

\* add or subtract the aligned significands
fp_add_combine(L) ==
  L @@ [res_mant_combined |->
          IF L.op_is_sub
          THEN IF L.a_ge_b THEN Diff(L.mant_a_aligned, L.mant_b_aligned)
               ELSE Diff(L.mant_b_aligned, L.mant_a_aligned)
          ELSE Sum(L.mant_a_aligned, L.mant_b_aligned),
        res_sign |-> IF L.op_is_sub /\ ~L.a_ge_b THEN L.sign_b ELSE L.sign_a]

\* the shift that takes the MSB of res_mant to bit ALIGN_MANT_W - 1
fp_add_shift(L) ==
  L @@ [shift |->
          L.ALIGN_MANT_W - 1
            - (IF L.res_mant_combined # {} THEN BitLength(L.res_mant_combined) - 1
               ELSE -1)]

fp_add_normalize(L) ==
  L @@ [res_mant_normalized |->
          IF L.shift > 0 THEN Shl(L.res_mant_combined, L.shift)
          ELSE Shr(L.res_mant_combined, -L.shift),
        res_exp_normalized |-> L.res_exp_aligned - L.shift]

\* the rounder's input: the mantissa without the implicit bit
fp_add_rounder_input(L) ==
  L @@ [rounder_input_width |-> L.ALIGN_MANT_W - 1,
        rounder_output_width |-> L.MANT_W,
        rounder_input |-> Low(L.res_mant_normalized, L.ALIGN_MANT_W - 1)]

\* the rounder told the opposite sign
fp_add_increment_negated(L) ==
  L @@ [increment |->
          grs_round(L.rounder_input, 1 - L.res_sign, L.rm,
                    L.rounder_input_width, L.rounder_output_width)]

fp_add_increment(L) ==
  L @@ [increment |->
          grs_round(L.rounder_input, L.res_sign, L.rm,
                    L.rounder_input_width, L.rounder_output_width)]

fp_add_round(L) ==
  L @@ [rounded_mant_no_implicit |->
          Sum(Shr(L.rounder_input, L.rounder_input_width - L.rounder_output_width),
              L.increment)]

\* mantissa overflow from rounding
fp_add_carry(L) ==
  L @@ [res_exp |->
          IF Shr(L.rounded_mant_no_implicit, L.MANT_W) # {}
          THEN L.res_exp_normalized + 1 ELSE L.res_exp_normalized,
        final_mant_rounded |->
          Low(IF Shr(L.rounded_mant_no_implicit, L.MANT_W) # {}
              THEN Shr(L.rounded_mant_no_implicit, 1)
              ELSE L.rounded_mant_no_implicit, L.MANT_W)]

\* an underflow that keeps the rounded fraction instead of flushing it
fp_add_final_gradual(L) ==
  L @@ [final_exp |->
          IF L.res_exp >= L.EXP_ALL_ONES THEN L.EXP_ALL_ONES
          ELSE IF L.res_exp <= 0 THEN 0 ELSE L.res_exp,
        final_mant |->
          IF L.res_exp >= L.EXP_ALL_ONES THEN {} ELSE L.final_mant_rounded]

\* final checks for overflow and underflow
fp_add_final(L) ==
  L @@ [final_exp |->
          IF L.res_exp >= L.EXP_ALL_ONES THEN L.EXP_ALL_ONES
          ELSE IF L.res_exp <= 0 THEN 0 ELSE L.res_exp,
        final_mant |->
          IF L.res_exp >= L.EXP_ALL_ONES \/ L.res_exp <= 0 THEN {}
          ELSE L.final_mant_rounded]

\* the exponent packed one position too low
fp_add_pack_exp_low(L) ==
  L @@ [result_int |->
          Or(Shl(FromNat(L.res_sign), L.SIGN_POS),
             Or(Shl(FromNat(L.final_exp), L.MANT_W - 1), L.final_mant))]

\* (res_sign << SIGN_POS) | (final_exp << MANT_W) | final_mant
fp_add_pack(L) ==
  L @@ [result_int |->
          Or(Shl(FromNat(L.res_sign), L.SIGN_POS),
             Or(Shl(FromNat(L.final_exp), L.MANT_W), L.final_mant))]

\* the local variables of one call of fp_add, for a supported width
fp_add_locals(a_hex, b_hex, width, rm, precision_bits) ==
  fp_add_pack(fp_add_final(fp_add_carry(fp_add_round(fp_add_increment(
    fp_add_rounder_input(fp_add_normalize(fp_add_shift(fp_add_combine(
      fp_add_compare(fp_add_align(fp_add_effective(fp_add_classify(fp_add_unpack(
        fp_add_constants(
          fp_add_args(a_hex, b_hex, width, rm, precision_bits))))))))))))))))

\* which return statement of fp_add a call leaves by
fp_add_path(L) ==
  IF L.is_nan_a \/ L.is_nan_b THEN "nan"
  ELSE IF inf_minus_inf(L.is_inf_a, L.is_inf_b, L.sign_a, L.sign_b) THEN "inf_minus_inf"
  ELSE IF L.is_inf_a \/ L.is_inf_b THEN "inf"
  ELSE IF L.is_zero_a /\ L.is_zero_b THEN "both_zero"
  ELSE IF L.is_zero_a \/ L.is_zero_b THEN "one_zero"
  ELSE IF L.res_mant_combined = {} THEN "cancel"
  ELSE "general"

\* the bit pattern of the value c that the return statement hands to fp_result
fp_add_value(L, path) ==
  CASE path = "nan" -> qnan_val(L.EXP_ALL_ONES, L.MANT_W)
    [] path = "inf_minus_inf" -> qnan_val(L.EXP_ALL_ONES, L.MANT_W)
    [] path = "inf" -> inf_result(L.is_inf_a, L.a_int, L.b_int)
    [] path = "both_zero" -> np_zero(L.WIDTH, zero_sum_sign(L.sign_a, L.sign_b) = 1)
    [] path = "one_zero" -> zero_result(L.is_zero_a, L.a_int, L.b_int)
    [] path = "cancel" -> np_zero(L.WIDTH, cancel_negative(L.rm, L.op_is_sub, L.sign_a))
    [] path = "general" -> L.result_int

fp_add_return(L) ==
  fp_result(L.WIDTH, np_frombuffer(fp_add_value(L, fp_add_path(L)), L.WIDTH))

fp_add(a_hex, b_hex, width, rm, precision_bits) ==
  IF width \notin {16, 32, 64} THEN [error |-> "KeyError"]
  ELSE fp_add_return(fp_add_locals(a_hex, b_hex, width, rm, precision_bits))

----------------------------------------------------------------------------
(* fp_mul: the multipliers.  The product is computed by the host's         *)
(* floating point unit in the next wider numpy format (by Decimal at       *)
(* width 64) and rounded back by bit-level code.                           *)

\* int(hex_str, 16).to_bytes(width // 8, "little") read as a numpy scalar
fp_parse_hex(width, hex_str) == to_bytes(int16(hex_str), width \div 8)

\* the IEEE 754 formats of np.float16, np.float32 and np.float64
np_format(width) ==
  CASE width = 16 -> [EXP_W |-> 5, MANT_W |-> 10, BIAS |-> 15]
    [] width = 32 -> [EXP_W |-> 8, MANT_W |-> 23, BIAS |-> 127]
    [] width = 64 -> [EXP_W |-> 11, MANT_W |-> 52, BIAS |-> 1023]

\* sign, exponent field and fraction of the bit pattern x of format F
np_fields(x, F) ==
  [sign |-> Bit(x, F.EXP_W + F.MANT_W),
   exp |-> ToNat(Low(Shr(x, F.MANT_W), F.EXP_W)),
   mant |-> Low(x, F.MANT_W)]

\* the value the fields f of format F encode: a NaN with its payload, an
\* Infinity, a zero, or (-1)^sign * sig * 2^exp with an integer sig
np_decode(f, F) ==
  [sign |-> f.sign,
   kind |-> IF f.exp = Pow2(F.EXP_W) - 1
            THEN (IF f.mant = {} THEN "inf" ELSE "nan")
            ELSE IF f.exp = 0 /\ f.mant = {} THEN "zero" ELSE "finite",
   sig |-> IF f.exp = 0 THEN f.mant ELSE Or(f.mant, {F.MANT_W}),
   exp |-> (IF f.exp = 0 THEN 1 ELSE f.exp) - F.BIAS - F.MANT_W,
   payload |-> f.mant]

\* the value of a numpy scalar of the given width, from its bytes
np_value(c, width) == np_decode(np_fields(from_bytes(c.bytes), np_format(width)), np_format(width))

\* np.float32(a_fp16), np.float64(a_fp32): the same value in the wider format;
\* the payload of a NaN moves to the top of the wider fraction
np_widen(v, from_width, to_width) ==
  [v EXCEPT !.payload = Shl(v.payload, np_format(to_width).MANT_W
                                         - np_format(from_width).MANT_W)]

\* the product of two non-negative ints below 2^56, by four limbs of 14 bits
\* each, so that every column sum fits TLC's integers
Limbs(x) ==
  <<ToNat(Low(x, 14)), ToNat(Low(Shr(x, 14), 14)), ToNat(Low(Shr(x, 28), 14)),
    ToNat(Shr(x, 42))>>

\* the sum of xs[i] * ys[j] over i + j = k, from i on: column k - 2 of the
\* product, whose eight limbs are columns 0 to 7
RECURSIVE ColumnFrom(_, _, _, _)
ColumnFrom(xs, ys, k, i) ==
  IF i > 4 THEN 0
  ELSE (IF k - i \in 1..4 THEN xs[i] * ys[k - i] ELSE 0) + ColumnFrom(xs, ys, k, i + 1)

RECURSIVE MulFrom(_, _, _, _)
MulFrom(xs, ys, k, carry) ==
  IF k > 9 THEN {}
  ELSE LET t == ColumnFrom(xs, ys, k, 1) + carry
       IN Or(Shl(FromNat(t % 16384), 14 * (k - 2)),
             MulFrom(xs, ys, k + 1, t \div 16384))

Mul(x, y) == {i : i \in MulFrom(Limbs(x), Limbs(y), 2, 0)}

\* the bit pattern of a NaN, an Infinity and a zero of format F
np_nan(sign, payload, F) ==
  Or(Shl(FromNat(sign), F.EXP_W + F.MANT_W),
     Or(Shl(FromNat(Pow2(F.EXP_W) - 1), F.MANT_W), Or(payload, {F.MANT_W - 1})))

np_inf(sign, F) ==
  Or(Shl(FromNat(sign), F.EXP_W + F.MANT_W), Shl(FromNat(Pow2(F.EXP_W) - 1), F.MANT_W))

np_signed_zero(sign, F) == Shl(FromNat(sign), F.EXP_W + F.MANT_W)

(* Rounding to nearest of (-1)^sign * P * 2^E, P # 0, into format F.  The  *)
(* steps pass the record R of what is known so far.                        *)

\* the exponent of the result's last place, and the number of bits dropped
np_round_place(sign, P, E, F, tie) ==
  [sign |-> sign, P |-> P, F |-> F, tie |-> tie,
   biased |-> E + BitLength(P) - 1 + F.BIAS,
   shift |-> (IF E + BitLength(P) - 1 + F.BIAS >= 1
              THEN E + BitLength(P) - 1 - F.MANT_W
              ELSE 1 - F.BIAS - F.MANT_W) - E]

np_round_bits(R) ==
  R @@ [kept |-> IF R.shift <= 0 THEN Shl(R.P, -R.shift) ELSE Shr(R.P, R.shift),
        g |-> R.shift > 0 /\ (R.shift - 1) \in R.P,
        sticky |-> R.shift > 1 /\ Low(R.P, R.shift - 1) # {}]

\* a tie goes to the even neighbour, or where the caller says
np_round_up(R) ==
  R @@ [round_up |->
          R.g /\ (R.sticky \/ (IF R.tie = "up" THEN TRUE
                              ELSE IF R.tie = "down" THEN FALSE ELSE 0 \in R.kept))]

\* kept + 1 if round_up: the bits below the lowest clear bit are cleared
np_round_increment(R) ==
  R @@ [rounded |->
          IF R.round_up
          THEN LET k == CHOOSE k \in 0..BitLength(R.kept) :
                          k \notin R.kept /\ \A j \in 0..(k - 1) : j \in R.kept
               IN {i \in R.kept : i > k} \cup {k}
          ELSE R.kept]

\* the significand holds its leading bit at MANT_W when the result is normal,
\* and at MANT_W + 1 after a carry: the bits from MANT_W up add to the
\* exponent field
np_round_pack(R) ==
  R @@ [exp_field |-> (IF R.biased >= 1 THEN R.biased - 1 ELSE 0)
                        + ToNat(Shr(R.rounded, R.F.MANT_W))]

np_round_result(R) ==
  IF R.exp_field >= Pow2(R.F.EXP_W) - 1 THEN np_inf(R.sign, R.F)
  ELSE Or(np_signed_zero(R.sign, R.F),
          Or(Shl(FromNat(R.exp_field), R.F.MANT_W), Low(R.rounded, R.F.MANT_W)))

np_round(sign, P, E, F, tie) ==
  np_round_result(np_round_pack(np_round_increment(np_round_up(np_round_bits(
    np_round_place(sign, P, E, F, tie))))))

(* The host's floating point unit.  IEEE 754 leaves to the implementation  *)
(* which NaN a multiplication returns: the first NaN operand quieted (x86),*)
(* the second one (the same unit with the operands exchanged), or the      *)
(* default NaN (RISC-V, Arm in default-NaN mode); and the sign of the      *)
(* default NaN of an invalid operation (set on x86, clear elsewhere).      *)
HOSTS ==
  {[nan |-> "first", default_sign |-> 1], [nan |-> "second", default_sign |-> 1],
   [nan |-> "default", default_sign |-> 0]}

\* the NaN operand the host propagates
host_nan_operand(a, b, host) ==
  IF host.nan = "first" THEN (IF a.kind = "nan" THEN a ELSE b)
  ELSE (IF b.kind = "nan" THEN b ELSE a)

host_nan(a, b, F, host) ==
  IF host.nan = "default" THEN np_nan(host.default_sign, {}, F)
  ELSE np_nan(host_nan_operand(a, b, host).sign, host_nan_operand(a, b, host).payload, F)

\* a * b of two numpy scalars of format F: the bit pattern of the product
host_multiply(a, b, F, host) ==
  CASE a.kind = "nan" \/ b.kind = "nan" -> host_nan(a, b, F, host)
    [] /\ a.kind # "nan" /\ b.kind # "nan"
       /\ {a.kind, b.kind} = {"inf", "zero"} -> np_nan(host.default_sign, {}, F)
    [] /\ a.kind # "nan" /\ b.kind # "nan"
       /\ "inf" \in {a.kind, b.kind}
       /\ "zero" \notin {a.kind, b.kind} -> np_inf((a.sign + b.sign) % 2, F)
    [] /\ "zero" \in {a.kind, b.kind}
       /\ {a.kind, b.kind} \subseteq {"zero", "finite"} ->
         np_signed_zero((a.sign + b.sign) % 2, F)
    [] a.kind = "finite" /\ b.kind = "finite" ->
         np_round((a.sign + b.sign) % 2, Mul(a.sig, b.sig), a.exp + b.exp, F, "even")

----------------------------------------------------------------------------
(* round_fp32_to_fp16: the quantities fit TLC's integers; a field that the *)
(* code isolates with & is the quotient and remainder by powers of two.    *)

IntBit(n, i) == (n \div Pow2(i)) % 2

\* sign_bit, exp_32, mant_32 of the float32 bit pattern x
round16_unpack(x) ==
  [sign_bit |-> 32768 * Bit(x, 31),
   exp_32 |-> ToNat(Low(Shr(x, 23), 8)),
   mant_32 |-> ToNat(Low(x, 23))]

\* the five conditions of the modes, on g, sticky, lsb and the sign
round_increments(rm, negative, lsb, g, sticky) ==
  \/ rm = RNE /\ g = 1 /\ (sticky \/ lsb = 1)
  \/ rm = RNA /\ g = 1
  \/ rm = RPI /\ ~negative /\ (g = 1 \/ sticky)
  \/ rm = RNI /\ negative /\ (g = 1 \/ sticky)

\* NaN or Infinity
round16_special(f) == f.sign_bit + 31744 + (IF f.mant_32 # 0 THEN 512 ELSE 0)

round16_overflow(f, rm) ==
  IF rm = RNI THEN 64511
  ELSE IF rm = RTZ /\ f.sign_bit # 0 THEN 64511
  ELSE f.sign_bit + 31744

\* too small: flush to zero or to the smallest denormal
round16_flush(f, rm) ==
  IF rm = RPI /\ f.sign_bit = 0 THEN 1
  ELSE IF rm = RNI /\ f.sign_bit # 0 THEN 32769
  ELSE f.sign_bit

\* mant = (mant_32 | 0x800000) >> (1 - exp_16), then rounded at bit 13
round16_denormal_of(f, rm, mant) ==
  f.sign_bit + (mant \div 8192)
    + (IF round_increments(rm, f.sign_bit # 0, IntBit(mant, 13), IntBit(mant, 12),
                           mant % 4096 # 0)
       THEN 1 ELSE 0)

round16_denormal(f, rm, exp_16) ==
  round16_denormal_of(f, rm, (f.mant_32 + 8388608) \div Pow2(1 - exp_16))

\* mant_16 += 1 with the mantissa and exponent overflows
round16_carry(f, exp_16, mant_16) ==
  IF mant_16 >= 1024
  THEN (IF exp_16 + 1 >= 31 THEN f.sign_bit + 31 * 1024
        ELSE f.sign_bit + (exp_16 + 1) * 1024 + mant_16 \div 2)
  ELSE f.sign_bit + exp_16 * 1024 + mant_16

round16_normal(f, rm, exp_16) ==
  IF round_increments(rm, f.sign_bit # 0, IntBit(f.mant_32, 13), IntBit(f.mant_32, 12),
                      f.mant_32 % 4096 # 0)
  THEN round16_carry(f, exp_16, f.mant_32 \div 8192 + 1)
  ELSE f.sign_bit + exp_16 * 1024 + f.mant_32 \div 8192

round16_finite(f, rm, exp_16) ==
  IF exp_16 >= 31 THEN round16_overflow(f, rm)
  ELSE IF exp_16 <= 0
       THEN (IF exp_16 < -10 THEN round16_flush(f, rm) ELSE round16_denormal(f, rm, exp_16))
  ELSE round16_normal(f, rm, exp_16)

round16_result_int(f, rm) ==
  IF f.exp_32 = 255 THEN round16_special(f)
  ELSE round16_finite(f, rm, f.exp_32 - 127 + 15)

\* val is the bit pattern of the np.float32; the result the np.float16
round_fp32_to_fp16(val, rm) ==
  np_frombuffer(FromNat(round16_result_int(round16_unpack(val), rm)), 16)

----------------------------------------------------------------------------
(* round_fp64_to_fp32: the 52-bit fraction is a set of bit positions.      *)

\* sign_bit_64, exp_64, mant_64 of the float64 bit pattern x
round32_unpack(x) ==
  [sign_bit_64 |-> Bit(x, 63),
   exp_64 |-> ToNat(Low(Shr(x, 52), 11)),
   mant_64 |-> Low(x, 52),
   sign_bit_32 |-> Shl(FromNat(Bit(x, 63)), 31)]

\* NaN or Infinity: propagate NaN, keep it quiet
round32_special(f) ==
  Or(f.sign_bit_32, Or(Shl(FromNat(255), 23), IF f.mant_64 # {} THEN {22} ELSE {}))

\* 0xFF7FFFFF, or sign_bit_32 | 0x7F800000
round32_overflow(f, rm) ==
  IF rm = RNI THEN (0..31) \ {23}
  ELSE IF rm = RTZ /\ f.sign_bit_64 # 0 THEN (0..31) \ {23}
  ELSE Or(f.sign_bit_32, 23..30)

round32_flush(f, rm) ==
  IF rm = RPI /\ f.sign_bit_64 = 0 THEN {0}
  ELSE IF rm = RNI /\ f.sign_bit_64 # 0 THEN {0, 31}
  ELSE f.sign_bit_32

\* mant = (mant_64 | (1 << 52)) >> denorm_shift, then rounded at bit 29
round32_denormal_of(f, rm, mant) ==
  Or(f.sign_bit_32,
     FromNat(ToNat(Shr(mant, 29))
             + (IF round_increments(rm, f.sign_bit_64 # 0, Bit(mant, 29), Bit(mant, 28),
                                    Low(mant, 28) # {})
                THEN 1 ELSE 0)))

round32_denormal(f, rm, denorm_shift) ==
  round32_denormal_of(f, rm, Shr(Or(f.mant_64, {52}), denorm_shift))

\* mant_32 += 1 with the mantissa and exponent overflows
round32_carry(f, exp_32, mant_32) ==
  IF mant_32 >= 8388608
  THEN (IF exp_32 + 1 >= 255 THEN Or(f.sign_bit_32, FromNat(255 * 8388608))
        ELSE Or(f.sign_bit_32, FromNat((exp_32 + 1) * 8388608 + mant_32 \div 2)))
  ELSE Or(f.sign_bit_32, FromNat(exp_32 * 8388608 + mant_32))

round32_normal(f, rm, exp_32) ==
  IF round_increments(rm, f.sign_bit_64 # 0, Bit(f.mant_64, 29), Bit(f.mant_64, 28),
                      Low(f.mant_64, 28) # {})
  THEN round32_carry(f, exp_32, ToNat(Shr(f.mant_64, 29)) + 1)
  ELSE Or(f.sign_bit_32, FromNat(exp_32 * 8388608 + ToNat(Shr(f.mant_64, 29))))

round32_finite(f, rm, exp_32) ==
  IF exp_32 >= 255 THEN round32_overflow(f, rm)
  ELSE IF exp_32 <= 0
       THEN (IF 1 - exp_32 > 52 + 1 THEN round32_flush(f, rm)
             ELSE round32_denormal(f, rm, 1 - exp_32))
  ELSE round32_normal(f, rm, exp_32)

round32_result_int(f, rm) ==
  IF f.exp_64 = 2047 THEN round32_special(f)
  ELSE round32_finite(f, rm, f.exp_64 - 1023 + 127)

\* val is the bit pattern of the np.float64; the result the np.float32
round_fp64_to_fp32(val, rm) ==
  np_frombuffer(round32_result_int(round32_unpack(val), rm), 32)

----------------------------------------------------------------------------
(* The multipliers of the three widths.                                    *)

\* a_fp16 and b_fp16 parsed: the product in float32, rounded to fp16
fp16_mul_parsed(a_fp16, b_fp16, rm, host) ==
  fp_result(16,
    round_fp32_to_fp16(
      host_multiply(np_widen(np_value(a_fp16, 16), 16, 32),
                    np_widen(np_value(b_fp16, 16), 16, 32), np_format(32), host),
      rm))

fp16_mul(a_hex, b_hex, rm, host) ==
  IF "error" \in DOMAIN fp_parse_hex(16, a_hex) THEN fp_parse_hex(16, a_hex)
  ELSE IF "error" \in DOMAIN fp_parse_hex(16, b_hex) THEN fp_parse_hex(16, b_hex)
  ELSE fp16_mul_parsed(fp_parse_hex(16, a_hex), fp_parse_hex(16, b_hex), rm, host)

\* a_fp32 and b_fp32 parsed: the product in float64, rounded to fp32
fp32_mul_parsed(a_fp32, b_fp32, rm, host) ==
  fp_result(32,
    round_fp64_to_fp32(
      host_multiply(np_widen(np_value(a_fp32, 32), 32, 64),
                    np_widen(np_value(b_fp32, 32), 32, 64), np_format(64), host),
      rm))

fp32_mul(a_hex, b_hex, rm, host) ==
  IF "error" \in DOMAIN fp_parse_hex(32, a_hex) THEN fp_parse_hex(32, a_hex)
  ELSE IF "error" \in DOMAIN fp_parse_hex(32, b_hex) THEN fp_parse_hex(32, b_hex)
  ELSE fp32_mul_parsed(fp_parse_hex(32, a_hex), fp_parse_hex(32, b_hex), rm, host)

np_isfinite(v) == v.kind \in {"zero", "finite"}

\* Decimal(a_fp64) * Decimal(b_fp64) of two finite values.  Decimal(float)
\* is exact; the context's 40 digits round the product, which
\* round_decimal_to_fp64 accounts for.
decimal_product(a, b) ==
  [sign |-> (a.sign + b.sign) % 2,
   kind |-> IF "zero" \in {a.kind, b.kind} THEN "zero" ELSE "finite",
   sig |-> Mul(a.sig, b.sig),
   exp |-> a.exp + b.exp]

(* round_decimal_to_fp64 ends in np.float64(val), which rounds the decimal *)
(* to the nearest double, ties to even, whatever rm is.  val is the exact  *)
(* product rounded to 40 significant digits, a relative change below       *)
(* 10^-39.  An exact product of two doubles that is not half way between   *)
(* two adjacent doubles is at least 2^-106 of its size away from every such*)
(* half way point, so the 40 digits never change the nearest double.  An   *)
(* exact product that is half way is moved off the tie by the 40 digits    *)
(* when it has more digits than that: decimal_tie, "down" or "up", is the  *)
(* side it lands on, which depends on digits the model does not compute.   *)
round_decimal_to_fp64(val, rm, decimal_tie) ==
  CASE val.kind = "nan" -> np_frombuffer(np_nan(0, {}, np_format(64)), 64)
    [] val.kind = "inf" -> np_frombuffer(np_inf(val.sign, np_format(64)), 64)
    [] val.kind = "zero" -> np_frombuffer(np_signed_zero(val.sign, np_format(64)), 64)
    [] val.kind = "finite" ->
         np_frombuffer(np_round(val.sign, val.sig, val.exp, np_format(64), decimal_tie), 64)

\* only fp64_mul multiplies Decimals
DECIMAL_TIES(width) == IF width = 64 THEN {"down", "up"} ELSE {"unused"}

\* a_fp64 and b_fp64 parsed
fp64_mul_values(a, b, rm, host, decimal_tie) ==
  IF ~np_isfinite(a) \/ ~np_isfinite(b)
  THEN fp_result(64, np_frombuffer(host_multiply(a, b, np_format(64), host), 64))
  ELSE fp_result(64, round_decimal_to_fp64(decimal_product(a, b), rm, decimal_tie))

fp64_mul(a_hex, b_hex, rm, host, decimal_tie) ==
  IF "error" \in DOMAIN fp_parse_hex(64, a_hex) THEN fp_parse_hex(64, a_hex)
  ELSE IF "error" \in DOMAIN fp_parse_hex(64, b_hex) THEN fp_parse_hex(64, b_hex)
  ELSE fp64_mul_values(np_value(fp_parse_hex(64, a_hex), 64),
                       np_value(fp_parse_hex(64, b_hex), 64), rm, host, decimal_tie)

\* every other width taken for 16
fp_mul_any_width(a_hex, b_hex, width, rm, host, decimal_tie) ==
  IF width = 32 THEN fp32_mul(a_hex, b_hex, rm, host)
  ELSE IF width = 64 THEN fp64_mul(a_hex, b_hex, rm, host, decimal_tie)
  ELSE fp16_mul(a_hex, b_hex, rm, host)

fp_mul(a_hex, b_hex, width, rm, host, decimal_tie) ==
  IF width = 16 THEN fp16_mul(a_hex, b_hex, rm, host)
  ELSE IF width = 32 THEN fp32_mul(a_hex, b_hex, rm, host)
  ELSE IF width = 64 THEN fp64_mul(a_hex, b_hex, rm, host, decimal_tie)
  ELSE [error |-> "ValueError"]

----------------------------------------------------------------------------
(* Operands: W-bit encodings built from fields, as the harness builds its  *)
(* special values and its random cases.                                    *)

WIDTHS == {16, 32, 64}

\* (e, m) of get_special_fp_hex
fp_fields(width) ==
  CASE width = 16 -> [e |-> 5, m |-> 10]
    [] width = 32 -> [e |-> 8, m |-> 23]
    [] width = 64 -> [e |-> 11, m |-> 52]

\* (sign << (width - 1)) | (exp << mant_w) | mant
fp_encode(width, sign, exp, mant) ==
  Or(Shl(FromNat(sign), width - 1), Or(Shl(FromNat(exp), fp_fields(width).m), mant))

ExpSpread == 1
MantSpread == 1

\* exponent fields: zero and the smallest normals, the bias and its successor,
\* the largest normal and all ones
ExpSamples(width) ==
  LET top == Pow2(fp_fields(width).e) - 1
      bias == Pow2(fp_fields(width).e - 1) - 1
  IN (0..ExpSpread) \cup {bias, bias + 1} \cup {top - 1, top}

\* fractions near zero, all ones, and the fraction MSB alone
MantSamples(width) ==
  LET m == fp_fields(width).m
  IN {FromNat(k) : k \in 0..MantSpread} \cup {0..(m - 1)} \cup {{m - 1}}

Operands(width) ==
  {fp_encode(width, sign, exp, mant) :
     sign \in {0, 1}, exp \in ExpSamples(width), mant \in MantSamples(width)}

OperandHex(width) == {format_hex(x, width \div 4) : x \in Operands(width)}

----------------------------------------------------------------------------
(* The adder with its default precision: one call of fp_add.               *)

InitAdd ==
  /\ pc = "call"
  /\ \E w \in WIDTHS, rm \in ROUNDING_MODES :
       \E a_hex \in OperandHex(w), b_hex \in OperandHex(w) :
         call = [fn |-> "fp_add", a_hex |-> a_hex, b_hex |-> b_hex, width |-> w,
                 rm |-> rm, precision_bits |-> None]
  /\ ret = {}
  /\ InitProcess

CallFpAdd ==
  /\ pc = "call"
  /\ call.fn = "fp_add"
  /\ ret' = fp_add(call.a_hex, call.b_hex, call.width, call.rm, call.precision_bits)
  /\ pc' = "done"
  /\ UNCHANGED <<call, context_prec, harness_vars>>

SpecAdd == InitAdd /\ [][CallFpAdd]_vars

----------------------------------------------------------------------------
(* The multiplier: one call of fp_mul on some host.                        *)

(* The decimal context precision after a call of fp_mul: fp64_mul assigns  *)
(* getcontext().prec = 40 once both operands are parsed and finite, the    *)
(* other paths never touch the context.                                    *)
fp_mul_prec(a_hex, b_hex, width, prec) ==
  IF width # 64 THEN prec
  ELSE IF "error" \in DOMAIN fp_parse_hex(64, a_hex) THEN prec
  ELSE IF "error" \in DOMAIN fp_parse_hex(64, b_hex) THEN prec
  ELSE IF ~np_isfinite(np_value(fp_parse_hex(64, a_hex), 64))
          \/ ~np_isfinite(np_value(fp_parse_hex(64, b_hex), 64)) THEN prec
  ELSE 40

InitMul ==
  /\ pc = "call"
  /\ \E w \in WIDTHS, rm \in ROUNDING_MODES :
       \E a_hex \in OperandHex(w), b_hex \in OperandHex(w) :
         call = [fn |-> "fp_mul", a_hex |-> a_hex, b_hex |-> b_hex, width |-> w,
                 rm |-> rm]
  /\ ret = {}
  /\ InitProcess

CallFpMul ==
  /\ pc = "call"
  /\ call.fn = "fp_mul"
  /\ \E host \in HOSTS, decimal_tie \in DECIMAL_TIES(call.width) :
       ret' = fp_mul(call.a_hex, call.b_hex, call.width, call.rm, host, decimal_tie)
  /\ pc' = "done"
  /\ context_prec' = fp_mul_prec(call.a_hex, call.b_hex, call.width, context_prec)
  /\ UNCHANGED <<call, harness_vars>>

SpecMul == InitMul /\ [][CallFpMul]_vars

----------------------------------------------------------------------------
(* The cases the comparison harness gives the adder: the special values    *)
(* against the special and the listed normal and denormal values, and two  *)
(* pairs of normal numbers.  The harness's random cases are left out.      *)

special_names ==
  {"+zero", "-zero", "+inf", "-inf", "+qnan", "-qnan", "+snan", "-snan"}

\* the bit pattern get_special_fp_hex formats
special_fp_int(width, name) ==
  CASE name = "+zero" -> {}
    [] name = "-zero" -> {width - 1}
    [] name = "+inf" -> fp_encode(width, 0, Pow2(fp_fields(width).e) - 1, {})
    [] name = "-inf" -> fp_encode(width, 1, Pow2(fp_fields(width).e) - 1, {})
    [] name = "+qnan" ->
         fp_encode(width, 0, Pow2(fp_fields(width).e) - 1, {fp_fields(width).m - 1})
    [] name = "-qnan" ->
         fp_encode(width, 1, Pow2(fp_fields(width).e) - 1, {fp_fields(width).m - 1})
    [] name = "+snan" -> fp_encode(width, 0, Pow2(fp_fields(width).e) - 1, {0})
    [] name = "-snan" -> fp_encode(width, 1, Pow2(fp_fields(width).e) - 1, {0})

get_special_fp_hex(width, name) == format_hex(special_fp_int(width, name), width \div 4)

special_values(width) == {get_special_fp_hex(width, name) : name \in special_names}

normal_denormal_vals(width) ==
  CASE width = 16 ->
        {
          <<3, 12, 0, 0>>,
          <<12, 0, 0, 0>>,
          <<0, 6, 15, 3>>,
          <<0, 14, 8, 2>>,
          <<0, 2, 10, 11>>,
          <<8, 2, 10, 11>>,
          <<0, 0, 0, 1>>
        }
    [] width = 32 ->
        {
          <<3, 15, 8, 0, 0, 0, 0, 0>>,
          <<12, 0, 0, 0, 0, 0, 0, 0>>,
          <<4, 0, 0, 0, 0, 0, 0, 0>>,
          <<0, 0, 4, 0, 0, 0, 0, 1>>,
          <<8, 0, 4, 0, 0, 0, 0, 1>>,
          <<0, 0, 0, 0, 0, 0, 0, 1>>
        }
    [] width = 64 ->
        {
          <<3, 15, 15, 0, 0, 0, 0, 0, 0, 0, 0, 0, 0, 0, 0, 0>>,
          <<12, 0, 0, 0, 0, 0, 0, 0, 0, 0, 0, 0, 0, 0, 0, 0>>,
          <<4, 0, 0, 0, 0, 0, 0, 0, 0, 0, 0, 0, 0, 0, 0, 0>>,
          <<0, 0, 0, 8, 0, 0, 0, 0, 0, 0, 0, 0, 0, 0, 0, 1>>,
          <<8, 0, 0, 8, 0, 0, 0, 0, 0, 0, 0, 0, 0, 0, 0, 1>>,
          <<0, 0, 0, 0, 0, 0, 0, 0, 0, 0, 0, 0, 0, 0, 0, 1>>
        }

\* f"{v << (width - 16):0{width // 4}x}" of a 16-bit value given by its digits
widened_hex(hex16, width) == format_hex(Shl(int16(hex16), width - 16), width \div 4)

\* the pairs (a, b) of get_add_test_cases, without the random ones
get_add_test_cases(width) ==
  {p \in (special_values(width) \cup normal_denormal_vals(width))
           \X (special_values(width) \cup normal_denormal_vals(width)) :
     p[1] \in special_values(width) \/ p[2] \in special_values(width)}
  \cup {<<widened_hex(<<12, 5, 4, 0>>, width), widened_hex(<<2, 12, 10, 11>>, width)>>,
        <<widened_hex(<<5, 10, 6, 3>>, width), widened_hex(<<13, 11, 13, 11>>, width)>>}

InitAddCases ==
  /\ pc = "call"
  /\ \E w \in WIDTHS, rm \in ROUNDING_MODES :
       \E p \in get_add_test_cases(w) :
         call = [fn |-> "fp_add", a_hex |-> p[1], b_hex |-> p[2], width |-> w,
                 rm |-> rm, precision_bits |-> None]
  /\ ret = {}
  /\ InitProcess

SpecAddCases == InitAddCases /\ [][CallFpAdd]_vars

----------------------------------------------------------------------------
(* Calls with a width that is not supported, on operand strings of the     *)
(* three supported lengths.                                                *)

OTHER_WIDTHS == {0, 8, 15, 17, 24, 48, 63, 128}

InitOtherWidth ==
  /\ pc = "call"
  /\ \E w \in OTHER_WIDTHS, rm \in ROUNDING_MODES, len \in WIDTHS :
       \E a_hex \in special_values(len), b_hex \in special_values(len) :
         \/ call = [fn |-> "fp_add", a_hex |-> a_hex, b_hex |-> b_hex, width |-> w,
                    rm |-> rm, precision_bits |-> None]
         \/ call = [fn |-> "fp_mul", a_hex |-> a_hex, b_hex |-> b_hex, width |-> w,
                    rm |-> rm]
  /\ ret = {}
  /\ InitProcess

SpecOtherWidth == InitOtherWidth /\ [][CallFpAdd \/ CallFpMul]_vars

----------------------------------------------------------------------------
(* Both operations: one call of fp_add or of fp_mul.                       *)

SpecOps == (InitAdd \/ InitMul) /\ [][CallFpAdd \/ CallFpMul]_vars

----------------------------------------------------------------------------
(* The adder with an explicit precision_bits argument.                     *)

MaxPrecision == 3

InitAddPrecision ==
  /\ pc = "call"
  /\ \E w \in WIDTHS, rm \in ROUNDING_MODES,
        precision_bits \in {None} \cup {Some(p) : p \in 0..MaxPrecision} :
       \E a_hex \in OperandHex(w), b_hex \in special_values(w) :
         call = [fn |-> "fp_add", a_hex |-> a_hex, b_hex |-> b_hex, width |-> w,
                 rm |-> rm, precision_bits |-> precision_bits]
  /\ ret = {}
  /\ InitProcess

SpecAddPrecision == InitAddPrecision /\ [][CallFpAdd]_vars

----------------------------------------------------------------------------
(* fp16_model.py: the 16-bit adder fp16_add_ex, with its own constants,    *)
(* its own copy of grs_round and its own result formatting.                *)

\* fp16_parse_hex: int(hex_str, 16).to_bytes(2, "little") read as a float16
fp16_parse_hex(hex_str) == to_bytes(int16(hex_str), 2)

\* fp16_result: f"{c_int:04x}" of the scalar's bytes
fp16_result(c) ==
  IF "error" \in DOMAIN c THEN c
  ELSE [hex |-> format_hex(from_bytes(c.bytes), 4), dec |-> from_bytes(c.bytes)]

\* grs_round of fp16_model.py
fp16_grs_round(value_in, sign_in, mode, input_width, output_width) ==
  LET shift_amount == input_width - output_width
      lsb == Bit(Shr(value_in, shift_amount), 0)
      g == IF shift_amount >= 1 THEN Bit(Shr(value_in, shift_amount - 1), 0) ELSE 0
      r == IF shift_amount >= 2 THEN Bit(Shr(value_in, shift_amount - 2), 0) ELSE 0
      s == IF shift_amount >= 3 /\ Low(value_in, shift_amount - 2) # {} THEN 1 ELSE 0
      inexact == IF g + r + s > 0 THEN 1 ELSE 0
      increment ==
        CASE mode = RNE -> g * (IF r + s + lsb > 0 THEN 1 ELSE 0)
          [] mode = RTZ -> 0
          [] mode = RPI -> (1 - sign_in) * inexact
          [] mode = RNI -> sign_in * inexact
          [] mode = RNA -> g
          [] OTHER -> 0
  IN IF shift_amount <= 0 THEN value_in ELSE FromNat(increment)

\* unpack both operands
fp16_add_unpack(a_hex, b_hex, rm, precision_bits) ==
  [a_hex |-> a_hex, b_hex |-> b_hex, rm |-> rm, precision_bits |-> precision_bits,
   sign_a |-> Bit(Shr(int16(a_hex), 15), 0),
   exp_a |-> ToNat(Low(Shr(int16(a_hex), 10), 5)),
   mant_a |-> Low(int16(a_hex), 10),
   sign_b |-> Bit(Shr(int16(b_hex), 15), 0),
   exp_b |-> ToNat(Low(Shr(int16(b_hex), 10), 5)),
   mant_b |-> Low(int16(b_hex), 10)]

\* the special-case flags, implicit bits, effective exponents, alignment width
fp16_add_align(L) ==
  L @@ [is_zero_a |-> L.exp_a = 0 /\ L.mant_a = {},
        is_zero_b |-> L.exp_b = 0 /\ L.mant_b = {},
        is_inf_a |-> L.exp_a = 31 /\ L.mant_a = {},
        is_inf_b |-> L.exp_b = 31 /\ L.mant_b = {},
        is_nan_a |-> L.exp_a = 31 /\ L.mant_a # {},
        is_nan_b |-> L.exp_b = 31 /\ L.mant_b # {},
        align_mant_w |-> 10 + 1 + L.precision_bits,
        exp_diff |-> (IF L.exp_a # 0 THEN L.exp_a ELSE 1)
                       - (IF L.exp_b # 0 THEN L.exp_b ELSE 1),
        full_mant_a |-> (IF L.exp_a # 0 THEN {10} ELSE {}) \cup L.mant_a,
        full_mant_b |-> (IF L.exp_b # 0 THEN {10} ELSE {}) \cup L.mant_b]

fp16_add_aligned(L) ==
  L @@ [mant_a_aligned |->
          IF L.exp_diff > 0 THEN Shl(L.full_mant_a, L.precision_bits)
          ELSE Shr(Shl(L.full_mant_a, L.precision_bits), -L.exp_diff),
        mant_b_aligned |->
          IF L.exp_diff > 0 THEN Shr(Shl(L.full_mant_b, L.precision_bits), L.exp_diff)
          ELSE Shl(L.full_mant_b, L.precision_bits),
        res_exp_aligned |->
          IF L.exp_diff > 0 THEN (IF L.exp_a # 0 THEN L.exp_a ELSE 1)
          ELSE (IF L.exp_b # 0 THEN L.exp_b ELSE 1),
        op_is_sub |-> L.sign_a # L.sign_b]

\* a subtraction that always takes the sign of a
fp16_add_combine_sign_a(L) ==
  L @@ [res_mant_combined |->
          IF L.op_is_sub
          THEN IF Ge(L.mant_a_aligned, L.mant_b_aligned)
               THEN Diff(L.mant_a_aligned, L.mant_b_aligned)
               ELSE Diff(L.mant_b_aligned, L.mant_a_aligned)
          ELSE Sum(L.mant_a_aligned, L.mant_b_aligned),
        res_sign |-> L.sign_a]

\* add or subtract
fp16_add_combine(L) ==
  L @@ [res_mant_combined |->
          IF L.op_is_sub
          THEN IF Ge(L.mant_a_aligned, L.mant_b_aligned)
               THEN Diff(L.mant_a_aligned, L.mant_b_aligned)
               ELSE Diff(L.mant_b_aligned, L.mant_a_aligned)
          ELSE Sum(L.mant_a_aligned, L.mant_b_aligned),
        res_sign |->
          IF L.op_is_sub /\ ~Ge(L.mant_a_aligned, L.mant_b_aligned)
          THEN L.sign_b ELSE L.sign_a]

\* normalise: the MSB goes to bit align_mant_w - 1
fp16_add_normalize(L) ==
  L @@ [shift |-> (L.align_mant_w - 1) - (BitLength(L.res_mant_combined) - 1),
        res_mant_normalized |->
          IF (L.align_mant_w - 1) - (BitLength(L.res_mant_combined) - 1) > 0
          THEN Shl(L.res_mant_combined,
                   (L.align_mant_w - 1) - (BitLength(L.res_mant_combined) - 1))
          ELSE Shr(L.res_mant_combined,
                   (BitLength(L.res_mant_combined) - 1) - (L.align_mant_w - 1))]

\* round to 10 bits
fp16_add_round(L) ==
  L @@ [rounded_mant_no_implicit |->
          Sum(Shr(Low(L.res_mant_normalized, L.align_mant_w - 1),
                  (L.align_mant_w - 1) - 10),
              fp16_grs_round(Low(L.res_mant_normalized, L.align_mant_w - 1),
                             L.res_sign, L.rm, L.align_mant_w - 1, 10))]

\* mantissa overflow from rounding, then overflow and underflow
fp16_add_final(L) ==
  L @@ [res_exp |->
          (L.res_exp_aligned - L.shift)
            + (IF Shr(L.rounded_mant_no_implicit, 10) # {} THEN 1 ELSE 0),
        final_mant |->
          Low(IF Shr(L.rounded_mant_no_implicit, 10) # {}
              THEN Shr(L.rounded_mant_no_implicit, 1)
              ELSE L.rounded_mant_no_implicit, 10)]

\* the return statements of fp16_add_ex in their order; np.float16(np.nan) is
\* the positive quiet NaN 0x7e00, and the last one packs
\* (res_sign << 15) | (final_exp << 10) | final_mant
fp16_add_return(L) ==
  IF L.is_nan_a \/ L.is_nan_b THEN fp16_result(to_bytes({9, 10, 11, 12, 13, 14}, 2))
  ELSE IF L.is_inf_a /\ L.is_inf_b /\ L.sign_a # L.sign_b
    THEN fp16_result(to_bytes({9, 10, 11, 12, 13, 14}, 2))
  ELSE IF L.is_inf_a THEN fp16_result(fp16_parse_hex(L.a_hex))
  ELSE IF L.is_inf_b THEN fp16_result(fp16_parse_hex(L.b_hex))
  ELSE IF L.is_zero_a /\ L.is_zero_b
    THEN fp16_result(to_bytes(IF L.sign_a = 1 /\ L.sign_b = 1 THEN {15} ELSE {}, 2))
  ELSE IF L.is_zero_a THEN fp16_result(fp16_parse_hex(L.b_hex))
  ELSE IF L.is_zero_b THEN fp16_result(fp16_parse_hex(L.a_hex))
  ELSE IF L.res_mant_combined = {}
    THEN fp16_result(to_bytes(IF L.rm = RNI /\ L.op_is_sub THEN {15} ELSE {}, 2))
  ELSE IF L.res_exp >= 31
    THEN fp16_result(to_bytes(Or(Shl(FromNat(L.res_sign), 15), Shl(FromNat(31), 10)), 2))
  ELSE IF L.res_exp <= 0 THEN fp16_result(to_bytes(Shl(FromNat(L.res_sign), 15), 2))
  ELSE fp16_result(to_bytes(Or(Shl(FromNat(L.res_sign), 15),
                               Or(Shl(FromNat(L.res_exp), 10), L.final_mant)), 2))

fp16_add_ex(a_hex, b_hex, rm, precision_bits) ==
  fp16_add_return(fp16_add_final(fp16_add_round(fp16_add_normalize(fp16_add_combine(
    fp16_add_aligned(fp16_add_align(
      fp16_add_unpack(a_hex, b_hex, rm, precision_bits))))))))

\* 32 extra precision bits by default
fp16_add(a_hex, b_hex, rm) == fp16_add_ex(a_hex, b_hex, rm, 32)

\* 16-bit operands for a: every exponent field with the sampled fractions
Fp16OperandHex ==
  {format_hex(fp_encode(16, sign, exp, mant), 4) :
     sign \in {0, 1}, exp \in 0..31, mant \in MantSamples(16)}

InitFp16Add ==
  /\ pc = "call"
  /\ \E rm \in ROUNDING_MODES :
       \E a_hex \in Fp16OperandHex, b_hex \in OperandHex(16) :
         call = [fn |-> "fp16_add", a_hex |-> a_hex, b_hex |-> b_hex, width |-> 16,
                 rm |-> rm]
  /\ ret = {}
  /\ InitProcess

CallFp16Add ==
  /\ pc = "call"
  /\ call.fn = "fp16_add"
  /\ ret' = fp16_add(call.a_hex, call.b_hex, call.rm)
  /\ pc' = "done"
  /\ UNCHANGED <<call, context_prec, harness_vars>>

SpecFp16Add == InitFp16Add /\ [][CallFp16Add]_vars

----------------------------------------------------------------------------
(* The harness's scoreboard (fp_models_compare.py): canonicalize_fp_hex    *)
(* and _compare_and_report on two result strings and two optional          *)
(* expected strings.                                                       *)

\* Python truthiness of an Optional[str]: None and "" are false
truthy(opt) == opt # None /\ opt[1] # <<>>

\* -0 is left alone
canonicalize_keep_neg_zero(width, hex_val) ==
  IF width \notin {16, 32, 64} THEN hex_val
  ELSE IF ToNat(Low(Shr(int16(hex_val), fp_fields(width).m), fp_fields(width).e))
            = Pow2(fp_fields(width).e) - 1
          /\ Low(int16(hex_val), fp_fields(width).m) # {}
    THEN get_special_fp_hex(width, "+qnan")
  ELSE hex_val

canonicalize_fp_hex(width, hex_val) ==
  IF width \notin {16, 32, 64} THEN hex_val
  ELSE IF ToNat(Low(Shr(int16(hex_val), fp_fields(width).m), fp_fields(width).e))
            = Pow2(fp_fields(width).e) - 1
          /\ Low(int16(hex_val), fp_fields(width).m) # {}
    THEN get_special_fp_hex(width, "+qnan")
  ELSE IF int16(hex_val) = int16(get_special_fp_hex(width, "-zero"))
    THEN [i \in 1..(width \div 4) |-> 0]
  ELSE hex_val

\* res after the three comparisons of the canonical results
_compare_and_report(width, py_result, c_result, c_py_expected, c_c_expected) ==
  IF truthy(c_py_expected) /\ canonicalize_fp_hex(width, py_result) # c_py_expected[1]
  THEN 1
  ELSE IF truthy(c_c_expected) /\ canonicalize_fp_hex(width, c_result) # c_c_expected[1]
  THEN 1
  ELSE IF ~truthy(c_py_expected) /\ ~truthy(c_c_expected)
          /\ canonicalize_fp_hex(width, c_result) # canonicalize_fp_hex(width, py_result)
  THEN 1
  ELSE 0

\* expected values a test case may carry
ExpectedValues(width) ==
  {None, Some(get_special_fp_hex(width, "+zero")),
   Some(get_special_fp_hex(width, "-zero"))}

InitCompare ==
  /\ pc = "call"
  /\ \E w \in WIDTHS :
       \E py_result \in OperandHex(w), c_result \in OperandHex(w),
          c_py_expected \in ExpectedValues(w), c_c_expected \in ExpectedValues(w) :
         call = [fn |-> "_compare_and_report", width |-> w, py_result |-> py_result,
                 c_result |-> c_result, c_py_expected |-> c_py_expected,
                 c_c_expected |-> c_c_expected]
  /\ ret = {}
  /\ InitProcess

CallCompareAndReport ==
  /\ pc = "call"
  /\ call.fn = "_compare_and_report"
  /\ ret' = [res |-> _compare_and_report(call.width, call.py_result, call.c_result,
                                         call.c_py_expected, call.c_c_expected),
             py_result_canon |-> canonicalize_fp_hex(call.width, call.py_result),
             c_result_canon |-> canonicalize_fp_hex(call.width, call.c_result)]
  /\ pc' = "done"
  /\ UNCHANGED <<call, context_prec, harness_vars>>

SpecCompare == InitCompare /\ [][CallCompareAndReport]_vars

----------------------------------------------------------------------------
(* The oracle library of the harness (fp_models_compare.py): the global    *)
(* handle libfp, load_libfp, fp_add_c / fp_mul_c and compile_lib.  The C   *)
(* sources are not part of the Python files: a built library is an image   *)
(* [build, model], where build is the number of the compile_lib run that   *)
(* produced it and model says how its results relate to the Python model.  *)

MaxBuilds == 3

C_MODELS == {"agrees", "differs", "differs_sign"}

\* the image a library file holds before the first compile_lib run
Images(build) == {[build |-> build, model |-> m] : m \in C_MODELS}

\* ctypes.CDLL(lib_path): the loader maps the file on disk, or hands back the
\* image it already holds for that path (dropping the Python object never
\* unloads it); which of the two is the platform's choice
CDLL(file, loaded, reuse) ==
  IF loaded # None /\ reuse THEN [handle |-> loaded, dl_loaded |-> loaded]
  ELSE IF file # None THEN [handle |-> file, dl_loaded |-> file]
  ELSE [error |-> "OSError"]

\* load_libfp: the global handle and the loader's table after the call
load_libfp(handle, file, loaded, reuse) ==
  IF handle # None THEN [libfp |-> handle, dl_loaded |-> loaded, loads |-> 0]
  ELSE IF "error" \in DOMAIN CDLL(file, loaded, reuse)
  THEN [libfp |-> None, dl_loaded |-> loaded, loads |-> 1, error |-> "OSError"]
  ELSE [libfp |-> CDLL(file, loaded, reuse).handle,
        dl_loaded |-> CDLL(file, loaded, reuse).dl_loaded, loads |-> 1]

\* the result the library's C function returns, given the Python model's:
\* the same pattern, the pattern with its top exponent bit flipped, or the
\* pattern with its sign flipped
c_result_of(image, py_hex) ==
  CASE image.model = "agrees" -> py_hex
    [] image.model = "differs" ->
         format_hex((int16(py_hex) \ {4 * Len(py_hex) - 2})
                      \cup ({4 * Len(py_hex) - 2} \ int16(py_hex)), Len(py_hex))
    [] image.model = "differs_sign" ->
         format_hex((int16(py_hex) \ {4 * Len(py_hex) - 1})
                      \cup ({4 * Len(py_hex) - 1} \ int16(py_hex)), Len(py_hex))

\* fp_add_c / fp_mul_c after load_libfp(): f"{result:0{width // 4}x}"
fp_op_c(lib, width, py_result) ==
  IF "error" \in DOMAIN lib THEN [error |-> lib.error]
  ELSE IF width \notin {16, 32, 64} THEN [error |-> "ValueError"]
  ELSE IF "error" \in DOMAIN py_result THEN [error |-> py_result.error]
  ELSE [hex |-> c_result_of(lib.libfp[1], py_result.hex), image |-> lib.libfp[1]]

\* compile_lib: the file, the handle and the loader's table afterwards
compile_lib(file, loaded, outcome, image, reuse) ==
  CASE outcome = "denied" ->
         [libfp |-> None, lib_file |-> file, dl_loaded |-> loaded,
          error |-> "PermissionError"]
    [] outcome = "failed" ->
         [libfp |-> None, lib_file |-> None, dl_loaded |-> loaded,
          error |-> "CalledProcessError"]
    [] outcome = "built" ->
         load_libfp(None, Some(image), loaded, reuse) @@ [lib_file |-> Some(image)]

\* os.remove can only be refused for a file that exists and is mapped
compile_outcomes(file, loaded) ==
  {"built", "failed"} \cup (IF file # None /\ loaded # None THEN {"denied"} ELSE {})

InitLib ==
  /\ pc = "idle"
  /\ call = <<>>
  /\ ret = <<>>
  /\ context_prec = 28
  /\ libfp = None
  /\ lib_file \in {None} \cup {Some(im) : im \in Images(0)}
  /\ dl_loaded = None
  /\ builds = 0
  /\ frame = <<>>

LoadLibfp ==
  /\ pc = "idle"
  /\ \E reuse \in BOOLEAN :
       /\ libfp' = load_libfp(libfp, lib_file, dl_loaded, reuse).libfp
       /\ dl_loaded' = load_libfp(libfp, lib_file, dl_loaded, reuse).dl_loaded
       /\ ret' = load_libfp(libfp, lib_file, dl_loaded, reuse)
  /\ call' = [fn |-> "load_libfp"]
  /\ UNCHANGED <<pc, context_prec, lib_file, builds, frame>>

LibOperands == {<<3, 12, 0, 0>>, <<11, 12, 0, 1>>}

FpAddC ==
  /\ pc = "idle"
  /\ \E reuse \in BOOLEAN, a_hex \in LibOperands, b_hex \in LibOperands,
        width \in {8, 16}, rm \in {RNE, RTZ} :
       /\ libfp' = load_libfp(libfp, lib_file, dl_loaded, reuse).libfp
       /\ dl_loaded' = load_libfp(libfp, lib_file, dl_loaded, reuse).dl_loaded
       /\ ret' = fp_op_c(load_libfp(libfp, lib_file, dl_loaded, reuse), width,
                         fp_add(a_hex, b_hex, width, rm, None))
                   @@ [loads |-> load_libfp(libfp, lib_file, dl_loaded, reuse).loads]
       /\ call' = [fn |-> "fp_add_c", a_hex |-> a_hex, b_hex |-> b_hex,
                   width |-> width, rm |-> rm]
  /\ UNCHANGED <<pc, context_prec, lib_file, builds, frame>>

FpMulC ==
  /\ pc = "idle"
  /\ \E reuse \in BOOLEAN, a_hex \in LibOperands, b_hex \in LibOperands,
        width \in {8, 16}, rm \in {RNE, RTZ}, host \in HOSTS :
       /\ libfp' = load_libfp(libfp, lib_file, dl_loaded, reuse).libfp
       /\ dl_loaded' = load_libfp(libfp, lib_file, dl_loaded, reuse).dl_loaded
       /\ ret' = fp_op_c(load_libfp(libfp, lib_file, dl_loaded, reuse), width,
                         fp_mul(a_hex, b_hex, width, rm, host, "unused"))
                   @@ [loads |-> load_libfp(libfp, lib_file, dl_loaded, reuse).loads]
       /\ call' = [fn |-> "fp_mul_c", a_hex |-> a_hex, b_hex |-> b_hex,
                   width |-> width, rm |-> rm]
  /\ UNCHANGED <<pc, context_prec, lib_file, builds, frame>>

CompileLib ==
  /\ pc = "idle"
  /\ builds < MaxBuilds
  /\ builds' = builds + 1
  /\ \E outcome \in compile_outcomes(lib_file, dl_loaded),
        image \in Images(builds + 1), reuse \in BOOLEAN :
       /\ libfp' = compile_lib(lib_file, dl_loaded, outcome, image, reuse).libfp
       /\ lib_file' = compile_lib(lib_file, dl_loaded, outcome, image, reuse).lib_file
       /\ dl_loaded' = compile_lib(lib_file, dl_loaded, outcome, image, reuse).dl_loaded
       /\ ret' = compile_lib(lib_file, dl_loaded, outcome, image, reuse)
  /\ call' = [fn |-> "compile_lib"]
  /\ UNCHANGED <<pc, context_prec, frame>>

SpecLib == InitLib /\ [][LoadLibfp \/ FpAddC \/ FpMulC \/ CompileLib]_vars

----------------------------------------------------------------------------
(* The harness run (fp_models_compare.py main, tests, run_add_tests,       *)
(* run_mul_tests): main builds the library and runs tests(16); every       *)
(* iteration of a run_*_tests loop is one step.  frame holds the locals:   *)
(* rm_i (position in the mode list), i (next case), res and total of the   *)
(* run in progress with the verdicts it has seen, res_add and total_add of *)
(* the finished add run, rm_results, and res of tests.                     *)

MaxCases == 26

\* ROUNDING_MODES[rm_str]
rounding_mode(rm_str) ==
  CASE rm_str = "rne" -> RNE [] rm_str = "rtz" -> RTZ [] rm_str = "rpi" -> RPI
    [] rm_str = "rni" -> RNI [] rm_str = "rna" -> RNA

\* for rm in ["rne", "rtz", "rpi", "rni", "rna"]
tests_modes == <<"rne", "rtz", "rpi", "rni", "rna">>

special_list ==
  <<"+zero", "-zero", "+inf", "-inf", "+qnan", "-qnan", "+snan", "-snan">>

\* all_values of get_add_test_cases(16, ...) in the order of the source
add_all_values ==
  [i \in 1..8 |-> get_special_fp_hex(16, special_list[i])]
    \o << <<3, 12, 0, 0>>, <<12, 0, 0, 0>>, <<0, 6, 15, 3>>, <<0, 14, 8, 2>>,
          <<0, 2, 10, 11>>, <<8, 2, 10, 11>>, <<0, 0, 0, 1>> >>

\* all_values of get_mul_test_cases(16, ...) in the order of the source
mul_all_values ==
  [i \in 1..8 |-> get_special_fp_hex(16, special_list[i])]
    \o << <<3, 12, 0, 0>>, <<12, 0, 0, 0>>, <<4, 0, 0, 0>>, <<4, 2, 0, 0>>,
          <<3, 8, 0, 0>>, <<3, 4, 0, 0>>, <<13, 6, 11, 8>>, <<8, 12, 6, 1>>,
          <<0, 6, 15, 3>>, <<0, 14, 8, 2>>, <<0, 3, 15, 15>>, <<0, 0, 0, 1>> >>

\* the k-th case the nested loops append: (a, b) then (b, a) for every pair
\* with a special operand; the pairs within MaxCases all have a special a
permutation_case(all_values, k, rm) ==
  IF k % 2 = 1
  THEN <<all_values[(((k - 1) \div 2) \div Len(all_values)) + 1],
         all_values[(((k - 1) \div 2) % Len(all_values)) + 1], None, None, rm>>
  ELSE <<all_values[(((k - 1) \div 2) % Len(all_values)) + 1],
         all_values[(((k - 1) \div 2) \div Len(all_values)) + 1], None, None, rm>>

\* add_cases of tests(16) for one mode, cut after MaxCases cases
add_cases(rm) ==
  << <<<<8, 9, 9, 12>>, <<0, 9, 7, 4>>, None, None, "rpi">>,
     <<<<1, 2, 13, 4>>, <<15, 7, 14, 2>>, None, None, "rpi">> >>
    \o [k \in 1..(MaxCases - 2) |-> permutation_case(add_all_values, k, rm)]

\* mul_cases of tests(16) for one mode, cut after MaxCases cases
mul_cases(rm) ==
  << <<<<1, 2, 8, 6>>, <<8, 14, 9, 12>>, None, None, "rne">> >>
    \o [k \in 1..(MaxCases - 1) |-> permutation_case(mul_all_values, k, rm)]

\* the loop body counting every case as a failure
run_tests_step_all_fail(locals, verdict) ==
  [locals EXCEPT !.i = @ + 1, !.res = @ + 1, !.total = @ + 1,
                 !.verdicts = Append(@, verdict)]

\* res += compare_fp_*(...); total += 1
run_tests_step(locals, verdict) ==
  [locals EXCEPT !.i = @ + 1, !.res = @ + verdict, !.total = @ + 1,
                 !.verdicts = Append(@, verdict)]

\* compare_fp_add / compare_fp_mul: the verdict, or the exception raised
compare_fp(c_result, py_result, case) ==
  IF "error" \in DOMAIN c_result THEN c_result
  ELSE IF "error" \in DOMAIN py_result THEN py_result
  ELSE [res |-> _compare_and_report(16, py_result.hex, c_result.hex, case[3], case[4])]

\* rc = min(res, 255)
main_rc(res) == IF res < 255 THEN res ELSE 255

InitTests ==
  /\ pc = "main"
  /\ call = [fn |-> "main"]
  /\ ret = <<>>
  /\ context_prec = 28
  /\ libfp = None
  /\ lib_file \in {None} \cup {Some(im) : im \in Images(0)}
  /\ dl_loaded = None
  /\ builds = 0
  /\ frame = <<>>

\* main: compile_lib(), then tests(16) starts its first mode
MainCompileLib ==
  /\ pc = "main"
  /\ builds' = builds + 1
  /\ \E outcome \in compile_outcomes(lib_file, dl_loaded),
        image \in Images(builds + 1), reuse \in BOOLEAN :
       /\ libfp' = compile_lib(lib_file, dl_loaded, outcome, image, reuse).libfp
       /\ lib_file' = compile_lib(lib_file, dl_loaded, outcome, image, reuse).lib_file
       /\ dl_loaded' = compile_lib(lib_file, dl_loaded, outcome, image, reuse).dl_loaded
       /\ ret' = compile_lib(lib_file, dl_loaded, outcome, image, reuse)
       /\ pc' = IF "error" \in DOMAIN compile_lib(lib_file, dl_loaded, outcome, image, reuse)
                THEN "raised" ELSE "run_add_tests"
  /\ frame' = [rm_i |-> 1, i |-> 1, res |-> 0, total |-> 0, verdicts |-> <<>>,
               res_add |-> 0, total_add |-> 0, rm_results |-> <<>>, tests_res |-> 0]
  /\ UNCHANGED <<call, context_prec>>

\* one iteration of the loop of run_add_tests
RunAddTestsStep ==
  /\ pc = "run_add_tests"
  /\ frame.i <= Len(add_cases(tests_modes[frame.rm_i]))
  /\ \E reuse \in BOOLEAN :
       LET case == add_cases(tests_modes[frame.rm_i])[frame.i]
           lib == load_libfp(libfp, lib_file, dl_loaded, reuse)
           py_result == fp_add(case[1], case[2], 16, rounding_mode(case[5]), None)
           cmp == compare_fp(fp_op_c(lib, 16, py_result), py_result, case)
       IN /\ libfp' = lib.libfp
          /\ dl_loaded' = lib.dl_loaded
          /\ IF "error" \in DOMAIN cmp
             THEN pc' = "raised" /\ ret' = cmp /\ frame' = frame
             ELSE pc' = pc /\ ret' = cmp /\ frame' = run_tests_step(frame, cmp.res)
  /\ UNCHANGED <<call, context_prec, lib_file, builds>>

\* run_add_tests returns (res, total); run_mul_tests starts
RunAddTestsReturn ==
  /\ pc = "run_add_tests"
  /\ frame.i > Len(add_cases(tests_modes[frame.rm_i]))
  /\ ret' = [fn |-> "run_add_tests", res |-> frame.res, total |-> frame.total,
             verdicts |-> frame.verdicts,
             supplied |-> Len(add_cases(tests_modes[frame.rm_i]))]
  /\ frame' = [frame EXCEPT !.res_add = frame.res, !.total_add = frame.total,
                            !.i = 1, !.res = 0, !.total = 0, !.verdicts = <<>>]
  /\ pc' = "run_mul_tests"
  /\ UNCHANGED <<call, context_prec, libfp, lib_file, dl_loaded, builds>>

\* one iteration of the loop of run_mul_tests
RunMulTestsStep ==
  /\ pc = "run_mul_tests"
  /\ frame.i <= Len(mul_cases(tests_modes[frame.rm_i]))
  /\ \E reuse \in BOOLEAN, host \in HOSTS :
       LET case == mul_cases(tests_modes[frame.rm_i])[frame.i]
           lib == load_libfp(libfp, lib_file, dl_loaded, reuse)
           py_result == fp_mul(case[1], case[2], 16, rounding_mode(case[5]), host, "unused")
           cmp == compare_fp(fp_op_c(lib, 16, py_result), py_result, case)
       IN /\ libfp' = lib.libfp
          /\ dl_loaded' = lib.dl_loaded
          /\ IF "error" \in DOMAIN cmp
             THEN pc' = "raised" /\ ret' = cmp /\ frame' = frame
             ELSE pc' = pc /\ ret' = cmp /\ frame' = run_tests_step(frame, cmp.res)
  /\ UNCHANGED <<call, context_prec, lib_file, builds>>

\* run_mul_tests returns; tests adds up the mode, and after the last mode
\* main returns rc
RunMulTestsReturn ==
  /\ pc = "run_mul_tests"
  /\ frame.i > Len(mul_cases(tests_modes[frame.rm_i]))
  /\ LET tests_res == frame.tests_res + frame.res_add + frame.res
         rm_results == Append(frame.rm_results,
                              <<frame.res_add, frame.total_add, frame.res, frame.total>>)
     IN IF frame.rm_i < Len(tests_modes)
        THEN /\ ret' = [fn |-> "run_mul_tests", res |-> frame.res, total |-> frame.total,
                        verdicts |-> frame.verdicts,
                        supplied |-> Len(mul_cases(tests_modes[frame.rm_i]))]
             /\ frame' = [frame EXCEPT !.rm_i = @ + 1, !.i = 1, !.res = 0, !.total = 0,
                                       !.verdicts = <<>>, !.tests_res = tests_res,
                                       !.rm_results = rm_results]
             /\ pc' = "run_add_tests"
        ELSE /\ ret' = [fn |-> "main", rc |-> main_rc(tests_res),
                        res |-> frame.res, total |-> frame.total,
                        verdicts |-> frame.verdicts,
                        supplied |-> Len(mul_cases(tests_modes[frame.rm_i]))]
             /\ frame' = [frame EXCEPT !.tests_res = tests_res,
                                       !.rm_results = rm_results]
             /\ pc' = "exit"
  /\ UNCHANGED <<call, context_prec, libfp, lib_file, dl_loaded, builds>>

SpecTests ==
  InitTests /\ [][MainCompileLib \/ RunAddTestsStep \/ RunAddTestsReturn
                    \/ RunMulTestsStep \/ RunMulTestsReturn]_vars

----------------------------------------------------------------------------
\* C1: for input_width > output_width, grs_round returns 1 exactly when
\* RNE: g and (r or s or lsb); RTZ: never; RPI: (g or r or s) and sign_in = 0;
\* RNI: (g or r or s) and sign_in = 1; RNA: g; and 0 otherwise.  lsb is bit
\* (input_width - output_width) of value_in, g the bit below it, r the bit
\* below g, s the OR of all bits below r.
C1_Expected(c) ==
  LET k == c.input_width - c.output_width
      lsb == k \in c.value_in
      g == (k - 1) \in c.value_in
      r == (k - 2) \in c.value_in
      s == \E i \in c.value_in : i < k - 2
  IN CASE c.mode = RNE -> g /\ (r \/ s \/ lsb)
       [] c.mode = RTZ -> FALSE
       [] c.mode = RPI -> (g \/ r \/ s) /\ c.sign_in = 0
       [] c.mode = RNI -> (g \/ r \/ s) /\ c.sign_in = 1
       [] c.mode = RNA -> g

C1_GrsTable ==
  (pc = "done" /\ call.fn = "grs_round" /\ call.input_width > call.output_width)
    => ret = (IF C1_Expected(call) THEN {0} ELSE {})

\* guard and sticky set, round and lsb clear: RNE rounds up on the sticky bit
C1_Witness ==
  /\ pc = "done" /\ call.fn = "grs_round"
  /\ call.input_width - call.output_width >= 3
  /\ call.mode = RNE
  /\ call.value_in = {call.input_width - call.output_width - 1, 0}
  /\ ret = {0}

----------------------------------------------------------------------------
(* Vocabulary of the claims about W-bit encodings: the fields are read off *)
(* the bit positions directly.                                             *)

FracW(w) == CASE w = 16 -> 10 [] w = 32 -> 23 [] w = 64 -> 52

SignOf(x, w) == IF (w - 1) \in x THEN 1 ELSE 0
ExpBits(w) == FracW(w)..(w - 2)
FracOf(x, w) == {i \in x : i < FracW(w)}
ExpAllOnes(x, w) == ExpBits(w) \subseteq x
ExpAllZeros(x, w) == ExpBits(w) \cap x = {}

IsNaN(x, w) == ExpAllOnes(x, w) /\ FracOf(x, w) # {}
IsInf(x, w) == ExpAllOnes(x, w) /\ FracOf(x, w) = {}
IsZero(x, w) == x \subseteq {w - 1}
IsFinite(x, w) == ~ExpAllOnes(x, w)
IsSubnormal(x, w) == ExpAllZeros(x, w) /\ FracOf(x, w) # {}

\* sign 0, exponent all ones, fraction MSB 1, other fraction bits 0
CanonicalQNaN(w) == (FracW(w) - 1)..(w - 2)
Infinity(sign, w) == ExpBits(w) \cup (IF sign = 1 THEN {w - 1} ELSE {})
MaxFinite(sign, w) ==
  ((0..(w - 2)) \ {FracW(w)}) \cup (IF sign = 1 THEN {w - 1} ELSE {})
Zero(sign, w) == IF sign = 1 THEN {w - 1} ELSE {}

\* the W/4 hex digits of a W-bit pattern, most significant first
HexDigit(x, lo) == Bit(x, lo) + 2 * Bit(x, lo + 1) + 4 * Bit(x, lo + 2) + 8 * Bit(x, lo + 3)
HexOf(x, w) == [i \in 1..(w \div 4) |-> HexDigit(x, w - 4 * i)]

\* the operands of the call, as bit patterns
A == int16(call.a_hex)
B == int16(call.b_hex)
W == call.width

AddDone == pc = "done" /\ call.fn = "fp_add"
MulDone == pc = "done" /\ call.fn = "fp_mul"
Returns(x) == "hex" \in DOMAIN ret /\ ret.hex = HexOf(x, W)

\* the local variables of the finished call
AddLocals == fp_add_locals(call.a_hex, call.b_hex, W, call.rm, call.precision_bits)

----------------------------------------------------------------------------
\* C2: in fp_add, when the exponent after normalisation and rounding is >= the
\* all-ones exponent, the result is Infinity with the result sign, except for
\* RNI with a positive result and RTZ or RNI with a negative result, where it is
\* the largest finite magnitude of that sign.
C2_Clamps(rm, sign) == (rm = RNI /\ sign = 0) \/ (rm \in {RTZ, RNI} /\ sign = 1)

C2_OverflowClamp ==
  (AddDone /\ fp_add_path(AddLocals) = "general"
           /\ AddLocals.res_exp >= AddLocals.EXP_ALL_ONES)
    => Returns(IF C2_Clamps(call.rm, AddLocals.res_sign)
               THEN MaxFinite(AddLocals.res_sign, W)
               ELSE Infinity(AddLocals.res_sign, W))

\* C3: fp_add of two zeros returns a zero whose sign is sign_a AND sign_b, except
\* that with differing signs under RNI the result is -0.
C3_ZeroSum ==
  (AddDone /\ IsZero(A, W) /\ IsZero(B, W))
    => Returns(Zero(IF SignOf(A, W) # SignOf(B, W) /\ call.rm = RNI THEN 1
                    ELSE And1(SignOf(A, W), SignOf(B, W)), W))

\* C4: fp_add with at least one NaN operand (quiet or signaling, either sign)
\* returns the canonical quiet NaN of the width, 0x7e00 at width 16.
C4_NaNDominates ==
  (AddDone /\ (IsNaN(A, W) \/ IsNaN(B, W)))
    => /\ Returns(CanonicalQNaN(W))
       /\ W = 16 => ret.hex = <<7, 14, 0, 0>>

\* a negative signaling NaN added to a finite nonzero number
C4_Witness ==
  /\ AddDone
  /\ IsNaN(A, W) /\ SignOf(A, W) = 1 /\ (FracW(W) - 1) \notin A
  /\ IsFinite(B, W) /\ ~IsZero(B, W)
  /\ Returns(CanonicalQNaN(W))

\* C5: fp_mul with at least one NaN operand (quiet or signaling, either sign,
\* any payload) returns exactly the canonical quiet NaN of the width, at every
\* width, under every rounding mode and whatever the other operand is.
\* The code keeps the sign of the NaN that the host's multiplication returns
\* (and at width 64 its payload too), so this does not hold.
C5_MulNaNCanonical ==
  (MulDone /\ (IsNaN(A, W) \/ IsNaN(B, W))) => Returns(CanonicalQNaN(W))

\* C6: fp_add of +Infinity and -Infinity, in either order, returns the canonical
\* quiet NaN under every rounding mode; 0x7e00 at width 16.
C6_InfMinusInf ==
  (AddDone /\ IsInf(A, W) /\ IsInf(B, W) /\ SignOf(A, W) # SignOf(B, W))
    => /\ Returns(CanonicalQNaN(W))
       /\ W = 16 => ret.hex = <<7, 14, 0, 0>>

\* fp_add(0x7c00, 0xfc00) at width 16 under RNI
C6_Witness ==
  /\ AddDone /\ W = 16 /\ call.rm = RNI
  /\ call.a_hex = <<7, 12, 0, 0>> /\ call.b_hex = <<15, 12, 0, 0>>
  /\ ret.hex = <<7, 14, 0, 0>>

\* C7: with at least one Infinity operand, no NaN operand and no pair of
\* opposite Infinities, fp_add returns that Infinity's bit pattern unchanged.
C7_InfReturned ==
  (AddDone /\ (IsInf(A, W) \/ IsInf(B, W)) /\ ~IsNaN(A, W) /\ ~IsNaN(B, W)
           /\ ~(IsInf(A, W) /\ IsInf(B, W) /\ SignOf(A, W) # SignOf(B, W)))
    => Returns(IF IsInf(A, W) THEN A ELSE B)

\* a finite nonzero first operand and -Infinity as the second
C7_Witness ==
  /\ AddDone /\ IsFinite(A, W) /\ ~IsZero(A, W)
  /\ B = Infinity(1, W)
  /\ ret.hex = call.b_hex

\* C8: with exactly one zero operand and a finite nonzero other operand fp_add
\* returns the other operand unchanged; fp_add(a, +0, RNE) = a for every
\* non-NaN, nonzero a.
C8_ZeroIdentity ==
  /\ (AddDone /\ IsZero(A, W) /\ IsFinite(B, W) /\ ~IsZero(B, W)) => Returns(B)
  /\ (AddDone /\ IsZero(B, W) /\ IsFinite(A, W) /\ ~IsZero(A, W)) => Returns(A)
  /\ (AddDone /\ B = Zero(0, W) /\ call.rm = RNE /\ ~IsNaN(A, W) /\ ~IsZero(A, W))
       => ret.hex = call.a_hex

\* -0 added to a positive subnormal
C8_Witness ==
  /\ AddDone /\ A = Zero(1, W) /\ IsSubnormal(B, W) /\ SignOf(B, W) = 0
  /\ ret.hex = call.b_hex

\* C9: in the general path, when the aligned significands cancel to zero the
\* result is +0, except -0 under RNI with operands of opposite sign; so
\* fp_add(x, -x, m) is -0 for RNI and +0 otherwise, for finite nonzero x.
C9_Cancellation ==
  /\ (AddDone /\ fp_add_path(AddLocals) = "cancel")
       => Returns(Zero(IF call.rm = RNI /\ SignOf(A, W) # SignOf(B, W) THEN 1 ELSE 0, W))
  /\ (AddDone /\ IsFinite(A, W) /\ ~IsZero(A, W)
              /\ (B \ A = {W - 1} \/ A \ B = {W - 1}) /\ B \ {W - 1} = A \ {W - 1})
       => Returns(Zero(IF call.rm = RNI THEN 1 ELSE 0, W))

\* a negative normal x added to +x under RNI gives -0
C9_Witness ==
  /\ AddDone /\ call.rm = RNI
  /\ SignOf(A, W) = 1 /\ IsFinite(A, W) /\ ~ExpAllZeros(A, W) /\ B = A \ {W - 1}
  /\ Returns(Zero(1, W))

\* C10: fp_add is commutative: fp_add(a, b, W, m) and fp_add(b, a, W, m) return
\* the same bit pattern for every width, mode and pair of operands.
C10_Commutative ==
  AddDone => ret = fp_add(call.b_hex, call.a_hex, W, call.rm, call.precision_bits)

\* operands of opposite sign and different exponent, the smaller one first,
\* with an inexact sum
C10_Witness ==
  /\ AddDone /\ fp_add_path(AddLocals) = "general"
  /\ SignOf(A, W) = 0 /\ SignOf(B, W) = 1
  /\ IsSubnormal(A, W) /\ ~ExpAllZeros(B, W)
  /\ ret # fp_add(call.a_hex, call.b_hex, W, RTZ, call.precision_bits)

\* C11: fp_mul is commutative: on one host, fp_mul(a, b, W, m) and
\* fp_mul(b, a, W, m) return the same bit pattern, NaN pairs that differ in
\* sign or payload included.  The NaN the host's multiplication propagates
\* depends on the operand order, and the code keeps its sign, so this does not
\* hold.
C11_MulCommutative ==
  MulDone =>
    \A host \in HOSTS, decimal_tie \in DECIMAL_TIES(W) :
      ret = fp_mul(call.a_hex, call.b_hex, W, call.rm, host, decimal_tie)
        => ret = fp_mul(call.b_hex, call.a_hex, W, call.rm, host, decimal_tie)

\* C12: fp_mul of a zero and an Infinity, of either sign and in either order,
\* returns the canonical quiet NaN of the width (0x7e00 at width 16) for every
\* mode.  The code returns the host's default NaN with its sign, which is set
\* on x86, so this does not hold.
C12_ZeroTimesInf ==
  (MulDone /\ (\/ IsZero(A, W) /\ IsInf(B, W)
               \/ IsInf(A, W) /\ IsZero(B, W)))
    => /\ Returns(CanonicalQNaN(W))
       /\ W = 16 => ret.hex = <<7, 14, 0, 0>>

\* C13: fp_mul of a zero and a finite operand returns the zero whose sign is
\* sign_a XOR sign_b, for every mode and width.  At widths 16 and 32 the
\* rounding back takes the zero product for an underflow and returns the
\* smallest denormal under RPI (positive) and RNI (negative), so this does
\* not hold.
C13_ZeroTimesFinite ==
  (MulDone /\ (\/ IsZero(A, W) /\ IsFinite(B, W)
               \/ IsFinite(A, W) /\ IsZero(B, W)))
    => Returns(Zero((SignOf(A, W) + SignOf(B, W)) % 2, W))

\* the value an operand of the call encodes at the call's width
ValueOf(x) == np_decode(np_fields(x, np_format(W)), np_format(W))

\* the exact product of the operands' significands, placed for rounding into
\* the call's width
ExactProduct ==
  np_round_bits(np_round_place((SignOf(A, W) + SignOf(B, W)) % 2,
                               Mul(ValueOf(A).sig, ValueOf(B).sig),
                               ValueOf(A).exp + ValueOf(B).exp, np_format(W), "even"))

FiniteNonzero(x) == IsFinite(x, W) /\ ~IsZero(x, W)
ProductInexact == ExactProduct.g \/ ExactProduct.sticky
ProductOverflows == ExactProduct.biased >= Pow2(np_format(W).EXP_W) - 1

\* fp_mul of the call's operands under another mode
MulUnder(rm, host, decimal_tie) ==
  fp_mul(call.a_hex, call.b_hex, W, rm, host, decimal_tie)

\* C14: fp_mul of two finite nonzero operands returns the exact product
\* rounded under the requested mode: when the exact product is positive, not
\* representable and does not overflow, the RPI result is the successor
\* encoding of the RTZ result and the RNI result equals the RTZ result; for a
\* negative product RNI and RPI exchange their parts.  fp64_mul ignores the
\* mode, and the rounding back at widths 16 and 32 does not see all the
\* dropped bits, so this does not hold.
C14_MulDirected ==
  (/\ MulDone
   /\ FiniteNonzero(A) /\ FiniteNonzero(B)
   /\ ProductInexact /\ ~ProductOverflows
   /\ call.rm = (IF ExactProduct.sign = 0 THEN RPI ELSE RNI))
    => \E host \in HOSTS, decimal_tie \in DECIMAL_TIES(W) :
         /\ "dec" \in DOMAIN ret
         /\ ret.dec = Sum(MulUnder(RTZ, host, decimal_tie).dec, {0})
         /\ MulUnder(IF ExactProduct.sign = 0 THEN RNI ELSE RPI, host, decimal_tie)
              = MulUnder(RTZ, host, decimal_tie)

\* the unsigned encoding without the sign bit
Magnitude(x) == Low(x, W - 1)

\* fp_add of the call's operands under another mode
AddUnder(rm) == fp_add(call.a_hex, call.b_hex, W, rm, call.precision_bits)

\* C15: for positive finite operands a and b, the magnitude of
\* fp_add(a, b, RPI) is greater than or equal to that of fp_add(a, b, RNI).
C15_ModeOrdering ==
  (/\ AddDone /\ call.rm = RPI
   /\ SignOf(A, W) = 0 /\ SignOf(B, W) = 0
   /\ IsFinite(A, W) /\ IsFinite(B, W))
    => Ge(Magnitude(ret.dec), Magnitude(AddUnder(RNI).dec))

\* an inexact sum of two positive normal numbers: RPI is strictly above RNI
C15_Witness ==
  /\ AddDone /\ call.rm = RPI
  /\ SignOf(A, W) = 0 /\ SignOf(B, W) = 0
  /\ IsFinite(A, W) /\ IsFinite(B, W)
  /\ fp_add_path(AddLocals) = "general"
  /\ IsFinite(ret.dec, W)
  /\ Magnitude(ret.dec) # Magnitude(AddUnder(RNI).dec)
  /\ Ge(Magnitude(ret.dec), Magnitude(AddUnder(RNI).dec))

GrsDone == pc = "done" /\ call.fn = "grs_round"

\* C16: grs_round returns 0 (no increment) whenever input_width <= output_width,
\* for every value_in, sign and mode.  The code returns value_in there, so
\* this does not hold.
C16_NothingDropped ==
  (GrsDone /\ call.input_width <= call.output_width) => ret = {}

\* the result is a complete one: W/4 hex digits of an integer below 2^W
ValidResult ==
  /\ DOMAIN ret = {"hex", "dec"}
  /\ ret.dec \subseteq 0..(W - 1)
  /\ Len(ret.hex) = W \div 4
  /\ ret.hex = HexOf(ret.dec, W)

\* C17: at every width, for every pair of operands and every mode, fp_add and
\* fp_mul complete without error and return an integer encoding in [0, 2^W),
\* rendered as exactly W/4 hex digits.
C17_ValidEncoding == (AddDone \/ MulDone) => ValidResult

\* a product that overflows the width: the result is still a W-bit pattern
C17_Witness ==
  /\ MulDone
  /\ FiniteNonzero(A) /\ FiniteNonzero(B)
  /\ ProductOverflows
  /\ ValidResult
  /\ ExpAllOnes(ret.dec, W)

\* C18: at width 16 with the default precision, fp_add(0xc540, 0x2cab, RNE)
\* returns 0xc52d: two normal operands of opposite sign and different
\* exponent on the general path (align, subtract, normalise, round to
\* nearest even).
C18_Scenario ==
  (/\ AddDone /\ W = 16 /\ call.rm = RNE /\ call.precision_bits = None
   /\ call.a_hex = <<12, 5, 4, 0>> /\ call.b_hex = <<2, 12, 10, 11>>)
    => ret.hex = <<12, 5, 2, 13>>

\* the scenario's call has run, on the general path with a subtraction
C18_Witness ==
  /\ AddDone /\ W = 16 /\ call.rm = RNE /\ call.precision_bits = None
  /\ call.a_hex = <<12, 5, 4, 0>> /\ call.b_hex = <<2, 12, 10, 11>>
  /\ fp_add_path(AddLocals) = "general"
  /\ AddLocals.op_is_sub
  /\ AddLocals.exp_a # AddLocals.exp_b
  /\ ret.hex = <<12, 5, 2, 13>>

\* the constants fp_add derives from the call's width
AddConstants ==
  fp_add_constants(fp_add_args(call.a_hex, call.b_hex, W, call.rm, call.precision_bits))

\* fp_add's unpacking applied to x: (sign, exp, mant)
UnpackedFields(x) ==
  LET U == fp_add_unpack([AddConstants EXCEPT !.a_int = x])
  IN <<U.sign_a, U.exp_a, U.mant_a>>

\* fp_add's packing applied to the fields (s, e, f)
PackedFields(s, e, f) ==
  fp_add_pack([SIGN_POS |-> AddConstants.SIGN_POS, MANT_W |-> AddConstants.MANT_W,
               res_sign |-> s, final_exp |-> e, final_mant |-> f]).result_int

Repacked(x) ==
  PackedFields(UnpackedFields(x)[1], UnpackedFields(x)[2], UnpackedFields(x)[3])

\* C19: the field split of fp_add is lossless in both directions at every
\* width, with Ew = 5/8/11 and Ew + Mw + 1 = W: packing the unpacked fields of
\* an operand gives the operand back, and unpacking the packed result fields
\* (s, e, f) gives (s, e, f) back.
C19_CodecRoundTrip ==
  AddDone =>
    /\ AddConstants.EXP_W = (CASE W = 16 -> 5 [] W = 32 -> 8 [] W = 64 -> 11)
    /\ AddConstants.EXP_W + AddConstants.MANT_W + 1 = W
    /\ Repacked(A) = A
    /\ Repacked(B) = B
    /\ fp_add_path(AddLocals) = "general" =>
         UnpackedFields(PackedFields(AddLocals.res_sign, AddLocals.final_exp,
                                     AddLocals.final_mant))
           = <<AddLocals.res_sign, AddLocals.final_exp, AddLocals.final_mant>>

\* a negative operand with exponent and fraction bits set, and a general-path
\* result with all three fields non-zero
C19_Witness ==
  /\ AddDone
  /\ UnpackedFields(A)[1] = 1 /\ UnpackedFields(A)[2] > 1 /\ UnpackedFields(A)[3] # {}
  /\ Repacked(A) = A
  /\ fp_add_path(AddLocals) = "general"
  /\ AddLocals.res_sign = 1 /\ AddLocals.final_exp > 0 /\ AddLocals.final_mant # {}
  /\ UnpackedFields(AddLocals.result_int)
       = <<AddLocals.res_sign, AddLocals.final_exp, AddLocals.final_mant>>

\* C20: fp_add and fp_mul called with a width outside {16, 32, 64} fail with
\* an error that does not depend on the operands or the mode, and return no
\* result.
C20_InvalidWidth ==
  /\ (AddDone /\ W \notin {16, 32, 64}) => ret = [error |-> "KeyError"]
  /\ (MulDone /\ W \notin {16, 32, 64}) => ret = [error |-> "ValueError"]

\* fp_mul has refused the width 8
C20_Witness ==
  /\ MulDone /\ W = 8
  /\ ret = [error |-> "ValueError"]
  /\ "hex" \notin DOMAIN ret

----------------------------------------------------------------------------
(* C21: a call of fp_add or fp_mul leaves the process-wide state as it     *)
(* found it; in particular the precision of the decimal arithmetic context *)
(* is the same after the call as before it.                                *)
C21_FrameEffect ==
  [][(pc = "call" /\ pc' = "done") =>
       /\ context_prec' = context_prec
       /\ harness_vars' = harness_vars]_vars

----------------------------------------------------------------------------
LargerSign == IF Ge(Magnitude(A), Magnitude(B)) THEN SignOf(A, W) ELSE SignOf(B, W)

AddGeneral == AddDone /\ fp_add_path(AddLocals) = "general"

(* C22: in the general path of fp_add an exponent <= 0 after normalising   *)
(* and rounding gives a zero with the sign of the operand of larger        *)
(* magnitude, so the general path never returns a subnormal encoding.      *)
C22_FlushToZero ==
  AddGeneral =>
    /\ "hex" \in DOMAIN ret /\ ~IsSubnormal(int16(ret.hex), W)
    /\ AddLocals.res_exp <= 0 => Returns(Zero(LargerSign, W))

\* two subnormals of one sign whose exact sum is subnormal come back as zero
C22_Witness ==
  /\ AddGeneral
  /\ IsSubnormal(A, W) /\ IsSubnormal(B, W) /\ SignOf(A, W) = SignOf(B, W)
  /\ SignOf(A, W) = 1
  /\ Shr(Sum(FracOf(A, W), FracOf(B, W)), FracW(W)) = {}
  /\ AddLocals.res_exp <= 0
  /\ Returns(Zero(1, W))

----------------------------------------------------------------------------
IsNormal(x, w) == ~ExpAllZeros(x, w) /\ ~ExpAllOnes(x, w)

(* C23: rounding in fp_add moves the result by at most one unit in the     *)
(* last place: for finite operands, when the RTZ result is a normal number *)
(* the result under any mode is that encoding or that encoding plus 1, and *)
(* a rounding increment that carries out of the fraction gives the next    *)
(* exponent with an all-zero fraction.                                     *)
C23_OneUlp ==
  (AddDone /\ IsFinite(A, W) /\ IsFinite(B, W) /\ "dec" \in DOMAIN AddUnder(RTZ)
     /\ IsNormal(AddUnder(RTZ).dec, W)) =>
    /\ ret.dec \in {AddUnder(RTZ).dec, Sum(AddUnder(RTZ).dec, {0})}
    /\ (fp_add_path(AddLocals) = "general"
          /\ Shr(AddLocals.rounded_mant_no_implicit, AddLocals.MANT_W) # {}) =>
         FracOf(ret.dec, W) = {}

----------------------------------------------------------------------------
(* C24: with the default extra precision, fp_add of two positive normal    *)
(* operands under RPI is strictly greater, as an unsigned encoding, than   *)
(* the larger operand: the alignment shift loses no nonzero contribution   *)
(* of the smaller operand before the rounding decision.                    *)
C24_NothingLost ==
  (AddDone /\ call.rm = RPI /\ call.precision_bits = None
     /\ SignOf(A, W) = 0 /\ SignOf(B, W) = 0 /\ IsNormal(A, W) /\ IsNormal(B, W)) =>
    /\ "dec" \in DOMAIN ret
    /\ ret.dec # (IF Ge(A, B) THEN A ELSE B)
    /\ Ge(ret.dec, IF Ge(A, B) THEN A ELSE B)

----------------------------------------------------------------------------
(* C25: for non-NaN operands other than zero times Infinity, the sign bit  *)
(* of the fp_mul result is sign_a XOR sign_b, also when the product        *)
(* overflows or underflows.                                                *)
C25_SignXor ==
  (MulDone /\ ~IsNaN(A, W) /\ ~IsNaN(B, W)
     /\ ~(IsZero(A, W) /\ IsInf(B, W)) /\ ~(IsInf(A, W) /\ IsZero(B, W))) =>
    /\ "dec" \in DOMAIN ret
    /\ SignOf(ret.dec, W) = (SignOf(A, W) + SignOf(B, W)) % 2

----------------------------------------------------------------------------
Fp16AddDone == pc = "done" /\ call.fn = "fp16_add"

(* C26: the two 16-bit adders agree: fp16_model.fp16_add(a, b, rm) and     *)
(* fp_model.fp_add(a, b, 16, rm) return the same hex result for all        *)
(* operands (NaN, Infinity, zero and subnormal ones too) and all modes.    *)
C26_AddersAgree ==
  Fp16AddDone =>
    /\ "hex" \in DOMAIN ret
    /\ "hex" \in DOMAIN fp_add(call.a_hex, call.b_hex, 16, call.rm, None)
    /\ ret.hex = fp_add(call.a_hex, call.b_hex, 16, call.rm, None).hex

\* a subnormal taken from a larger normal number of the other sign, rounded
C26_Witness ==
  /\ Fp16AddDone
  /\ IsSubnormal(A, 16) /\ IsNormal(B, 16) /\ SignOf(A, 16) # SignOf(B, 16)
  /\ call.rm = RNE
  /\ IsNormal(ret.dec, 16) /\ SignOf(ret.dec, 16) = SignOf(B, 16)
  /\ ret.dec # B
  /\ ret.hex = fp_add(call.a_hex, call.b_hex, 16, call.rm, None).hex

----------------------------------------------------------------------------
(* C27: fp_add uses the caller's precision_bits as the number of extra     *)
(* intermediate precision bits whenever the argument is provided, 0        *)
(* included, and the width's default (32, 7, 7) only when it is omitted.   *)
C27_PrecisionArgument ==
  AddDone =>
    AddLocals.PRECISION_BITS =
      IF call.precision_bits # None THEN call.precision_bits[1]
      ELSE CASE W = 16 -> 32 [] W = 32 -> 7 [] W = 64 -> 7

----------------------------------------------------------------------------
CompareDone == pc = "done" /\ call.fn = "_compare_and_report"

\* what canonicalisation is to give for a W-bit pattern written as h
Canonical(h) ==
  IF IsNaN(int16(h), W) THEN HexOf(CanonicalQNaN(W), W)
  ELSE IF int16(h) = Zero(1, W) THEN HexOf({}, W)
  ELSE h

\* equal up to NaN identity and the sign of zero
SameUpToNaNAndZero(x, y) ==
  \/ x = y
  \/ IsNaN(x, W) /\ IsNaN(y, W)
  \/ IsZero(x, W) /\ IsZero(y, W)

----------------------------------------------------------------------------
(* C30: the library is loaded at most once per build: a loaded handle is   *)
(* reused without reloading until compile_lib runs; compile_lib clears the *)
(* handle, rebuilds, and reloads only after a successful build, so the     *)
(* handle in use is never a stale pre-build one and is cleared when the    *)
(* build fails.                                                            *)
C30_HandlePerBuild ==
  /\ libfp # None => libfp = lib_file
  /\ "image" \in DOMAIN ret => Some(ret.image) = lib_file
  /\ ("lib_file" \in DOMAIN ret /\ "error" \in DOMAIN ret) => libfp = None

----------------------------------------------------------------------------
\* the number of comparisons that returned 1
Failed(verdicts) == Cardinality({i \in 1..Len(verdicts) : verdicts[i] = 1})

\* failures of the add and mul runs of the first n modes
RECURSIVE FailuresUpTo(_, _)
FailuresUpTo(rm_results, n) ==
  IF n = 0 THEN 0
  ELSE FailuresUpTo(rm_results, n - 1) + rm_results[n][1] + rm_results[n][3]

====
